---- MODULE Spec2Model ----
(***************************************************************************)
(* Full-text index coordinator of chatlog (package repository + indexer).  *)
(*                                                                         *)
(* Spec       : the coordinator under concurrency - the startup goroutine  *)
(*              of initIndex, SearchMessages callers and IndexMessages     *)
(*              callers, interleaved at the granularity of the mutex       *)
(*              sections of index.go, index_incremental.go and search.go,  *)
(*              with the datasource growing underneath.                    *)
(* SearchSpec : the federated search Index.Search as a function of the     *)
(*              shard contents, the offset and the limit.                  *)
(***************************************************************************)
EXTENDS Integers, Sequences, FiniteSets, TLC

(***************************************************************************)
(* Bounds of the model.                                                    *)
(***************************************************************************)
MaxEvents == 2       \* Spec: what the environment does in a run: searches
                     \* started + messages the datasource gets + rebuilds
                     \* that fail + fingerprints the datasource loses
MaxOffset == 3       \* largest search offset tried in SearchSpec
MaxLim    == 2       \* largest small search limit tried in SearchSpec
MaxBatch  == 2       \* ShardSpec: longest batch handed to indexMessages
MaxWords  == 3       \* QuerySpec: most words in a query
MaxRunes  == 5       \* NormalizeSpec: longest text handed to normalizeContent
MaxRows   == 513     \* StreamSpec: most messages of one talker in the datasource

(***************************************************************************)
(* Program constants.                                                      *)
(***************************************************************************)
runtimeIndexVersion == "3"
perStoreBatchSize   == 512
DefaultLimit        == 20
MaxLimit            == 200
NoFp                == 0        \* the empty fingerprint ""
BlankFp             == -1       \* a fingerprint of white space only
InitFp              == 1        \* fingerprint of the dataset at process start

(***************************************************************************)
(* Strings are sequences of one-character strings.                         *)
(***************************************************************************)
SpaceChars == {" ", "\t", "\n", "\r"}

RECURSIVE TrimLeft(_)
TrimLeft(s) ==
    IF s = <<>> THEN <<>>
    ELSE IF Head(s) \in SpaceChars THEN TrimLeft(Tail(s)) ELSE s

RECURSIVE TrimRight(_)
TrimRight(s) ==
    IF s = <<>> THEN <<>>
    ELSE IF s[Len(s)] \in SpaceChars THEN TrimRight(SubSeq(s, 1, Len(s) - 1)) ELSE s

\* strings.TrimSpace
TrimSpace(s) == TrimRight(TrimLeft(s))

Min(a, b) == IF a < b THEN a ELSE b

(***************************************************************************)
(* The datasource: stores, talkers and messages.  A message carries its    *)
(* identity (talker, seq), its time, and rank: the bm25 score its content  *)
(* gets for the query under test (match = FALSE: it does not match).       *)
(***************************************************************************)
StoreIDs == {"s1", "s2"}
Talkers  == <<"t1", "t2">>          \* in sort.Strings order

Msg(t, q, u, r, m) == [talker |-> t, seq |-> q, unix |-> u, rank |-> r, match |-> m]

\* the i-th message the datasource gets: the talkers take turns
NewMsg(i) == Msg(Talkers[((i - 1) % Len(Talkers)) + 1], i, i, i, TRUE)
Msgs == {NewMsg(i) : i \in 1..MaxEvents}

m0 == Msg("t1", 0, 0, 1, TRUE)      \* indexed by an earlier run of the program

\* the talkers ListTalkers can report, in sort.Strings order; no store is
\* registered for the messages of t3
ListedTalkers == <<"t1", "t2", "t3">>
NoStore == "none"

LocateMessageStore_AnyStore(m) == IF m.talker = "t2" THEN "s2" ELSE "s1"

\* ds.LocateMessageStore and the talker-hash map of rebuildIndex: the store
\* that owns a message, NoStore when locateStore returns an error
LocateMessageStore(m) ==
    CASE m.talker = "t1" -> "s1"
      [] m.talker = "t2" -> "s2"
      [] OTHER -> NoStore

\* document identity of newDocument: talker + ":" + seq
DocID(m) == <<m.talker, m.seq>>

VARIABLES
    metaVersion,        \* Index.meta.Version, saved to index-meta.json
    metaFingerprint,    \* Index.meta.Fingerprint, saved to index-meta.json
    stores,             \* Index.stores: IDs of the shards with an open handle
    shardFiles,         \* documents in the database file of each shard
    indexStatus,        \* Repository.indexStatus
    indexFingerprint,   \* Repository.indexFingerprint
    dsMessages,         \* messages the datasource holds
    dsFingerprint,      \* what ds.GetDatasetFingerprint returns
    dsStores,           \* what ds.ListMessageStores returns
    proc,               \* the goroutines: position and locals
    pending,            \* messages the datasource got, not yet handed to IndexMessages
    fpLosses,           \* times the datasource lost its fingerprint
    searches,           \* SearchMessages calls started so far
    rebuildsStarted,    \* rebuildIndex executions started
    rebuildFailures,    \* rebuildIndex executions that returned an error
    dropped,            \* messages IndexMessages was handed and did not index
    sreq,               \* SearchSpec: the last request
    sres,               \* SearchSpec: its result
    sfirst,             \* SearchSpec: the first page, when a second is asked
    shard,              \* ShardSpec: the committed rows and checkpoints of a shard
    tx,                 \* ShardSpec: the indexMessages call on it and its transaction
    closed,             \* CloseSpec: Repository.Close has returned
    input,              \* QuerySpec, NormalizeSpec: the string handed to the function
    output,             \* QuerySpec, NormalizeSpec: what the function returned
    metaFile,           \* VersionSpec: the contents of index-meta.json
    storeIndexes,       \* SyncSpec: Index.stores, trimmed store ID -> handle
    handles             \* SyncSpec: every storeIndex made so far, path and db

coordVars == <<metaVersion, metaFingerprint, stores, shardFiles, indexStatus,
               indexFingerprint>>
dsVars    == <<dsMessages, dsFingerprint, dsStores, pending, fpLosses>>
ghostVars == <<searches, rebuildsStarted, rebuildFailures, dropped>>
searchVars == <<sreq, sres, sfirst>>
shardVars == <<shard, tx>>
closeVars == <<closed>>
unitVars == <<input, output>>
syncVars == <<storeIndexes, handles>>
fileVars == <<metaFile>>
vars == <<coordVars, dsVars, proc, ghostVars, searchVars, shardVars, closeVars,
          unitVars, syncVars, fileVars>>

Bg       == "startup"      \* the goroutine started by initIndex
Searchers == {"searcher1", "searcher2"}   \* goroutines that call SearchMessages
Indexer  == "indexer"      \* the goroutine that hands new messages to IndexMessages
Procs    == {Bg, Indexer} \cup Searchers

\* what the environment has done so far
Events == searches + Cardinality(dsMessages) + rebuildFailures + fpLosses

(***************************************************************************)
(* Progress is a fraction num/den, kept normalised at 0 and 1.             *)
(***************************************************************************)
Frac(n, d) ==
    IF n <= 0 THEN [num |-> 0, den |-> 1]
    ELSE IF n >= d THEN [num |-> 1, den |-> 1]
    ELSE [num |-> n, den |-> d]

ProgressZero == Frac(0, 1)
ProgressOne  == Frac(1, 1)
ProgressLess(a, b) == a.num * b.den < b.num * a.den

\* model.SearchIndexStatus, zero value
ZeroStatus == [Ready |-> FALSE, InProgress |-> FALSE, Progress |-> ProgressZero,
               LastError |-> ""]

NoBuffers == [s \in StoreIDs |-> <<>>]

\* a goroutine that is in no call
IdleProc == [pc |-> "idle", op |-> "none", q |-> <<>>, fp |-> NoFp,
             ready |-> FALSE, err |-> "none", gate |-> "none",
             solo |-> FALSE, fresh |-> FALSE, changed |-> FALSE,
             talkers |-> <<>>, done |-> 0, total |-> 0, rows |-> {},
             buffers |-> NoBuffers, dirty |-> {},
             handles |-> {}, hits |-> <<>>, count |-> 0,
             resp |-> [kind |-> "none"]]

(***************************************************************************)
(* Package indexer: metadata and shard handles (search.go).                *)
(***************************************************************************)

EnsureVersion_KeepsVersion(version) ==
    [matched |-> version = runtimeIndexVersion, version |-> version]

\* Index.EnsureVersion: Index.meta.Version afterwards and the result
EnsureVersion(version) ==
    [matched |-> version = runtimeIndexVersion, version |-> runtimeIndexVersion]

\* strings.TrimSpace on a fingerprint: white space only becomes "", a
\* fingerprint without white space is left alone
TrimFingerprint(fp) == IF fp = BlankFp THEN NoFp ELSE fp

\* index.go:80 and index_incremental.go:76: strings.TrimSpace(fp) == ""
FingerprintIsBlank(fp) == TrimFingerprint(fp) = NoFp

\* Index.UpdateFingerprint: the fingerprint it persists
UpdateFingerprint(fp) == TrimFingerprint(fp)

Upsert_KeepsOld(docs, m) == docs \cup {m}

\* messages ... ON CONFLICT(doc_id) DO UPDATE: one row per document identity
Upsert(docs, m) == {d \in docs : DocID(d) # DocID(m)} \cup {m}

\* storeIndex.indexMessages: the rows of the shard after the batch committed.
\* Every message of the batch is upserted in order, so of the messages with
\* one identity the last stays, and the rows of other identities are kept
indexMessages(docs, batch) ==
    LET last == {i \in 1..Len(batch) :
                    \A j \in (i + 1)..Len(batch) : DocID(batch[j]) # DocID(batch[i])}
    IN {d \in docs : \A i \in 1..Len(batch) : DocID(batch[i]) # DocID(d)}
       \cup {batch[i] : i \in last}

\* Reset, SyncStores and Close close the handle a search may still hold a
\* copy of: the copies of the shards in ids, in every goroutine, are closed
CloseHandles(p, ids) ==
    [r \in Procs |->
        [proc[r] EXCEPT !.handles =
            {[h EXCEPT !.open = h.open /\ h.id \notin ids] : h \in proc[r].handles}]]

(***************************************************************************)
(* Repository.ensureIndex (index.go:54-129).                               *)
(***************************************************************************)

GateFresh_Never(stored, fp, status) == FALSE

\* index.go:85: nothing to do
GateFresh(stored, fp, status) ==
    stored = fp /\ status.Ready /\ ~status.InProgress

GateBusy_Ignored(status) == FALSE

\* index.go:93: a rebuild is running
GateBusy(status) == status.InProgress

\* index.go:97-101
StartRebuild(status) ==
    [status EXCEPT !.InProgress = TRUE, !.Ready = FALSE,
                   !.Progress = ProgressZero, !.LastError = ""]

\* Repository.updateIndexProgress
updateIndexProgress(status, n, d) == [status EXCEPT !.Progress = Frac(n, d)]

\* the goroutine p calls ensureIndex for operation op
EnterEnsure(p, op, q) ==
    [r \in Procs |->
        IF r = p
        THEN [IdleProc EXCEPT !.pc = "ev", !.op = op, !.q = q,
                 !.solo = \A o \in Procs \ {p} : proc[o].pc \in {"idle", "ret", "done"},
                 !.fresh = /\ indexStatus.Ready /\ ~indexStatus.InProgress
                           /\ indexFingerprint = dsFingerprint]
        ELSE [proc[r] EXCEPT !.solo = FALSE]]

\* ensureIndex returns (ready, err) to its caller
ReturnEnsure(p, ready, err, gate) ==
    proc' = [proc EXCEPT ![p] =
                [IdleProc EXCEPT !.pc = IF proc[p].op = "ensure" THEN "done" ELSE "ens_ret",
                                 !.op = proc[p].op, !.q = proc[p].q,
                                 !.solo = proc[p].solo, !.fresh = proc[p].fresh,
                                 !.changed = proc[p].changed,
                                 !.ready = ready, !.err = err, !.gate = gate]]

\* index.go:63-82: r.index.EnsureVersion().  Once the persisted version is the
\* runtime version it stays so, and a call that finds it matched moves on to
\* its next access to shared state, r.ds.GetDatasetFingerprint(ctx)
EnsureIndexVersion(p) ==
    /\ proc[p].pc = "ev"
    /\ LET r == EnsureVersion(metaVersion) IN
        /\ metaVersion' = r.version
        /\ IF r.matched /\ FingerprintIsBlank(dsFingerprint)
           THEN ReturnEnsure(p, FALSE, "dataset fingerprint is empty", "nofp")
           ELSE proc' = [proc EXCEPT ![p].pc = IF r.matched THEN "gate" ELSE "clear",
                                     ![p].fp = IF r.matched THEN dsFingerprint ELSE NoFp]
    /\ UNCHANGED <<metaFingerprint, stores, shardFiles, indexStatus, indexFingerprint,
                   dsVars, ghostVars, searchVars, shardVars, closeVars, unitVars, syncVars, fileVars>>

\* index.go:68-74: the version did not match; changed notes whether the
\* call has altered the status or the fingerprint
EnsureIndexInvalidate(p) ==
    /\ proc[p].pc = "clear"
    /\ indexStatus' = [indexStatus EXCEPT !.Ready = FALSE, !.Progress = ProgressZero]
    /\ indexFingerprint' = NoFp
    /\ proc' = [proc EXCEPT ![p].pc = "fp",
                            ![p].changed = indexStatus' # indexStatus \/ indexFingerprint # NoFp]
    /\ UNCHANGED <<metaVersion, metaFingerprint, stores, shardFiles, dsVars,
                   ghostVars, searchVars, shardVars, closeVars, unitVars, syncVars, fileVars>>

\* index.go:76-82: r.ds.GetDatasetFingerprint(ctx); an empty fingerprint is
\* an error
EnsureIndexFingerprint(p) ==
    /\ proc[p].pc = "fp"
    /\ IF FingerprintIsBlank(dsFingerprint)
       THEN ReturnEnsure(p, FALSE, "dataset fingerprint is empty", "nofp")
       ELSE proc' = [proc EXCEPT ![p].pc = "gate", ![p].fp = dsFingerprint]
    /\ UNCHANGED <<coordVars, dsVars, ghostVars, searchVars, shardVars, closeVars, unitVars, syncVars, fileVars>>

\* index.go:84-102: the gate, under indexMu.  On the fast path Progress is
\* snapped to 1 when the copy read under the lock shows less (index.go:88-90)
EnsureIndexGate(p) ==
    /\ proc[p].pc = "gate"
    /\ IF GateFresh(indexFingerprint, proc[p].fp, indexStatus)
       THEN /\ indexStatus' = IF ProgressLess(indexStatus.Progress, ProgressOne)
                              THEN updateIndexProgress(indexStatus, 1, 1)
                              ELSE indexStatus
            /\ ReturnEnsure(p, TRUE, "none", "fresh")
            /\ UNCHANGED rebuildsStarted
       ELSE IF GateBusy(indexStatus)
       THEN /\ ReturnEnsure(p, FALSE, "none", "busy")
            /\ UNCHANGED <<indexStatus, rebuildsStarted>>
       ELSE /\ indexStatus' = StartRebuild(indexStatus)
            /\ proc' = [proc EXCEPT ![p].pc = "rb_reset", ![p].gate = "start"]
            /\ rebuildsStarted' = rebuildsStarted + 1
    /\ UNCHANGED <<metaVersion, metaFingerprint, stores, shardFiles, indexFingerprint,
                   dsVars, searches, rebuildFailures, dropped, searchVars, shardVars, closeVars, unitVars, syncVars, fileVars>>

RebuildSucceeded_StillBusy(status) ==
    [status EXCEPT !.Ready = TRUE, !.Progress = ProgressOne]

\* index.go:122-124: the status after a successful rebuild
RebuildSucceeded(status) ==
    [status EXCEPT !.InProgress = FALSE, !.Ready = TRUE, !.Progress = ProgressOne]

RebuildFailed_NotRecorded(status, err) == [status EXCEPT !.InProgress = FALSE]

\* index.go:114-115: the status after a failed rebuild
RebuildFailed(status, err) ==
    [status EXCEPT !.InProgress = FALSE, !.LastError = err]

RebuildCancelled_Recorded(status) ==
    [status EXCEPT !.InProgress = FALSE, !.LastError = "canceled"]

\* index.go:108: the status after a cancelled rebuild
RebuildCancelled(status) == [status EXCEPT !.InProgress = FALSE]

RebuiltFingerprint_AtCompletion(fp, current) == current

\* index.go:103, 121: the fingerprint handed to rebuildIndex and stored
\* after it is the local fp of the call, not a second read of the datasource
RebuiltFingerprint(fp, current) == fp

\* index.go:120-128: the rebuild succeeded
EnsureIndexSucceed(p) ==
    /\ proc[p].pc = "e_done"
    /\ indexFingerprint' = RebuiltFingerprint(proc[p].fp, dsFingerprint)
    /\ indexStatus' = RebuildSucceeded(indexStatus)
    /\ ReturnEnsure(p, TRUE, "none", "start")
    /\ UNCHANGED <<metaVersion, metaFingerprint, stores, shardFiles,
                   dsVars, searches, rebuildsStarted, rebuildFailures,
                   dropped, searchVars, shardVars, closeVars, unitVars, syncVars, fileVars>>

\* index.go:113-117: the rebuild failed
EnsureIndexFail(p) ==
    /\ proc[p].pc = "e_fail"
    /\ indexStatus' = RebuildFailed(indexStatus, proc[p].err)
    /\ ReturnEnsure(p, FALSE, proc[p].err, "start")
    /\ UNCHANGED <<metaVersion, metaFingerprint, stores, shardFiles, indexFingerprint,
                   dsVars, searches, rebuildsStarted, rebuildFailures,
                   dropped, searchVars, shardVars, closeVars, unitVars, syncVars, fileVars>>

\* index.go:106-111: the rebuild was cancelled
EnsureIndexCancel(p) ==
    /\ proc[p].pc = "e_cancel"
    /\ indexStatus' = RebuildCancelled(indexStatus)
    /\ ReturnEnsure(p, FALSE, "canceled", "start")
    /\ UNCHANGED <<metaVersion, metaFingerprint, stores, shardFiles, indexFingerprint,
                   dsVars, searches, rebuildsStarted, rebuildFailures,
                   dropped, searchVars, shardVars, closeVars, unitVars, syncVars, fileVars>>

(***************************************************************************)
(* Repository.rebuildIndex (index.go:131-302), run by ensureIndex outside  *)
(* the lock.                                                               *)
(***************************************************************************)

\* the datasource's stores, in the order ListMessageStores reports them
StoreList == <<"s1", "s2">>

\* ListTalkers followed by sort.Strings: the talkers that have messages
ListTalkers(msgs) ==
    SelectSeq(ListedTalkers, LAMBDA t : \E m \in msgs : m.talker = t)

\* the messages of a set in ascending sequence number, as IterateMessages
\* streams them
RECURSIVE BySeq(_)
BySeq(S) ==
    IF S = {} THEN <<>>
    ELSE LET m == CHOOSE x \in S : \A y \in S : x.seq <= y.seq
         IN <<m>> \o BySeq(S \ {m})

\* Index.IndexStoreMessages on c = [stores, files]: ensureStoreIndex opens the
\* shard when it has no handle, indexMessages commits the batch
IndexStoreMessages(c, id, batch) ==
    IF batch = <<>> THEN c
    ELSE [stores |-> c.stores \cup {id},
          files  |-> [c.files EXCEPT ![id] = indexMessages(@, batch)]]

FlushDue_Late(batch) == Len(batch) > perStoreBatchSize

\* index.go:268: the buffer has reached the batch size
FlushDue(batch) == Len(batch) >= perStoreBatchSize

\* index.go:257-277: the handler of rebuildIndex applied to the messages of
\* one talker; st = [buffers, dirty, stores, files].  A message locateStore
\* has no store for is logged and skipped
RECURSIVE handler(_, _)
handler(st, msgs) ==
    IF msgs = <<>> THEN st
    ELSE IF LocateMessageStore(Head(msgs)) = NoStore THEN handler(st, Tail(msgs))
    ELSE LET m     == Head(msgs)
             id    == LocateMessageStore(m)
             batch == Append(st.buffers[id], m)
             full  == FlushDue(batch)
             c     == IF full
                      THEN IndexStoreMessages([stores |-> st.stores, files |-> st.files], id, batch)
                      ELSE [stores |-> st.stores, files |-> st.files]
         IN handler([buffers |-> [st.buffers EXCEPT ![id] = IF full THEN <<>> ELSE batch],
                     dirty   |-> st.dirty \cup {id},
                     stores  |-> c.stores,
                     files   |-> c.files], Tail(msgs))

\* rebuildIndex returns err: ensureIndex goes on at index.go:105.  The
\* startup call is the only one that can be cancelled and is made once;
\* other failures are events of the environment
FailRebuild(p, err) ==
    /\ err # "canceled" => Events < MaxEvents
    /\ proc' = [proc EXCEPT ![p].pc = IF err = "canceled" THEN "e_cancel" ELSE "e_fail",
                            ![p].err = err]
    /\ rebuildFailures' = rebuildFailures + (IF err = "canceled" THEN 0 ELSE 1)

\* index.go:137-144: ListMessageStores, then Index.Reset closes every open
\* shard and removes its file
RebuildReset(p) ==
    /\ proc[p].pc = "rb_reset"
    /\ shardFiles' = [s \in StoreIDs |-> IF s \in stores THEN {} ELSE shardFiles[s]]
    /\ stores' = {}
    /\ proc' = [CloseHandles(p, stores) EXCEPT ![p].pc = "rb_sync"]
    /\ UNCHANGED <<metaVersion, metaFingerprint, indexStatus, indexFingerprint,
                   dsVars, ghostVars, searchVars, shardVars, closeVars, unitVars, syncVars, fileVars>>

AfterSyncStores_NoShortcut(list) == "rb_talkers"

\* index.go:152-157: with no store the rebuild persists the fingerprint and
\* the build time and returns; else it goes on to ListTalkers
AfterSyncStores(list) == IF Len(list) = 0 THEN "rb_fp" ELSE "rb_talkers"

\* index.go:145-157: EnsureVersion again (its result is dropped), then
\* Index.SyncStores opens a shard for every store of the datasource
RebuildSyncStores(p) ==
    /\ proc[p].pc = "rb_sync"
    /\ metaVersion' = EnsureVersion(metaVersion).version
    /\ stores' = {dsStores[k] : k \in 1..Len(dsStores)}
    /\ proc' = [proc EXCEPT ![p].pc = AfterSyncStores(dsStores)]
    /\ UNCHANGED <<metaFingerprint, shardFiles, indexStatus, indexFingerprint,
                   dsVars, ghostVars, searchVars, shardVars, closeVars, unitVars, syncVars, fileVars>>

\* index.go:234-251: ListTalkers
RebuildListTalkers(p) ==
    /\ proc[p].pc = "rb_talkers"
    /\ LET talkers == ListTalkers(dsMessages) IN
        proc' = [proc EXCEPT ![p].pc = IF talkers = <<>> THEN "rb_fp" ELSE "rb_iter",
                             ![p].talkers = talkers, ![p].done = 0,
                             ![p].total = Len(talkers)]
    /\ UNCHANGED <<coordVars, dsVars, ghostVars, searchVars, shardVars, closeVars, unitVars, syncVars, fileVars>>

\* index.go:252-281: one turn of the talker loop: ctx.Err(), then
\* IterateMessages streams the talker's messages through the handler.  Only
\* the startup goroutine has a context that can be cancelled (Close); once
\* Close has returned it is cancelled.
RebuildIterate(p) ==
    /\ proc[p].pc = "rb_iter"
    /\ \/ /\ p = Bg
          /\ FailRebuild(p, "canceled")
          /\ UNCHANGED <<stores, shardFiles>>
       \/ /\ ~(p = Bg /\ closed)
          /\ LET talker == Head(proc[p].talkers)
                 st == handler([buffers |-> proc[p].buffers, dirty |-> proc[p].dirty,
                                stores |-> stores, files |-> shardFiles],
                               BySeq({m \in dsMessages : m.talker = talker}))
             IN /\ stores' = st.stores
                /\ shardFiles' = st.files
                /\ proc' = [proc EXCEPT ![p].pc = "rb_flush", ![p].buffers = st.buffers,
                                        ![p].dirty = st.dirty]
                /\ UNCHANGED rebuildFailures
    /\ UNCHANGED <<metaVersion, metaFingerprint, indexStatus, indexFingerprint,
                   dsVars, searches, rebuildsStarted, dropped,
                   searchVars, shardVars, closeVars, unitVars, syncVars, fileVars>>

\* index.go:223-232, 283: flushDirty hands the buffer of one dirty store to
\* its shard; a failed batch is rolled back and fails the rebuild
RebuildFlushStore(p) ==
    /\ proc[p].pc = "rb_flush"
    /\ \E id \in proc[p].dirty :
        \/ LET c == IndexStoreMessages([stores |-> stores, files |-> shardFiles],
                                       id, proc[p].buffers[id])
           IN /\ stores' = c.stores
              /\ shardFiles' = c.files
              /\ proc' = [proc EXCEPT ![p].buffers[id] = <<>>,
                                      ![p].dirty = proc[p].dirty \ {id}]
              /\ UNCHANGED rebuildFailures
        \/ /\ proc[p].buffers[id] # <<>>
           /\ FailRebuild(p, "insert message")
           /\ UNCHANGED <<stores, shardFiles>>
    /\ UNCHANGED <<metaVersion, metaFingerprint, indexStatus, indexFingerprint,
                   dsVars, searches, rebuildsStarted, dropped,
                   searchVars, shardVars, closeVars, unitVars, syncVars, fileVars>>

\* index.go:287: updateIndexProgress(float64(i+1) / total), next talker
RebuildProgress(p) ==
    /\ proc[p].pc = "rb_flush"
    /\ proc[p].dirty = {}
    /\ indexStatus' = updateIndexProgress(indexStatus, proc[p].done + 1, proc[p].total)
    /\ proc' = [proc EXCEPT ![p].pc = IF Len(proc[p].talkers) = 1 THEN "rb_fp" ELSE "rb_iter",
                            ![p].talkers = Tail(proc[p].talkers),
                            ![p].done = proc[p].done + 1]
    /\ UNCHANGED <<metaVersion, metaFingerprint, stores, shardFiles, indexFingerprint,
                   dsVars, ghostVars, searchVars, shardVars, closeVars, unitVars, syncVars, fileVars>>

\* index.go:290-301 (and 153, 243): UpdateFingerprint(fp), UpdateLastBuilt
RebuildFinish(p) ==
    /\ proc[p].pc = "rb_fp"
    /\ metaFingerprint' = UpdateFingerprint(RebuiltFingerprint(proc[p].fp, dsFingerprint))
    /\ proc' = [proc EXCEPT ![p].pc = "e_done"]
    /\ UNCHANGED <<metaVersion, stores, shardFiles, indexStatus, indexFingerprint,
                   dsVars, ghostVars, searchVars, shardVars, closeVars, unitVars, syncVars, fileVars>>

RebuildPcs == {"rb_reset", "rb_sync", "rb_talkers", "rb_iter", "rb_flush",
               "rb_fp"}

(***************************************************************************)
(* Index.Search and storeIndex.search (search.go:539-623, 862-961).        *)
(***************************************************************************)

\* WHERE messages_fts MATCH ?: the rows of a shard that match the query
Matching(docs) == {d \in docs : d.match}

\* the less function of sort.Slice (search.go:596-611), which is also
\* ORDER BY score ASC, m.unix DESC, m.seq DESC (search.go:917)
KeyLess(a, b) ==
    \/ a.rank < b.rank
    \/ a.rank = b.rank /\ a.unix > b.unix
    \/ a.rank = b.rank /\ a.unix = b.unix /\ a.seq > b.seq

\* Neither ORDER BY nor sort.Slice (not stable) fixes the order of rows with
\* equal keys: every listing of the entries I of c that respects the key is a
\* possible outcome
RECURSIVE SortedFrom(_, _)
SortedFrom(c, I) ==
    IF I = {} THEN {<<>>}
    ELSE UNION {{<<c[i]>> \o t : t \in SortedFrom(c, I \ {i})} :
                  i \in {j \in I : \A k \in I : ~KeyLess(c[k], c[j])}}

SortSlice(c) == SortedFrom(c, DOMAIN c)

\* a set as a sequence, in some order
RECURSIVE SeqOfSet(_)
SeqOfSet(S) ==
    IF S = {} THEN <<>>
    ELSE LET x == CHOOSE y \in S : TRUE IN <<x>> \o SeqOfSet(S \ {x})

\* LIMIT ? OFFSET ? of the data query
LimitOffset(rows, limit, offset) ==
    IF offset >= Len(rows) THEN <<>>
    ELSE SubSeq(rows, offset + 1, Min(offset + limit, Len(rows)))

\* storeIndex.search: the possible (hits, total) of one shard
storeIndexSearch(docs, offset, limit) ==
    {[hits |-> LimitOffset(rows, limit, offset), total |-> Cardinality(Matching(docs))] :
        rows \in SortSlice(SeqOfSet(Matching(docs)))}

\* search.go:555-563
ClampLimit(limit) ==
    IF limit <= 0 THEN DefaultLimit ELSE IF limit > MaxLimit THEN MaxLimit ELSE limit

ClampOffset(offset) == IF offset < 0 THEN 0 ELSE offset

\* search.go:576-579
PerStoreLimit(offset, limit) ==
    IF offset + limit <= 0 THEN limit ELSE offset + limit

ShardTotal_RowsReturned(r) == Len(r.hits)

\* search.go:588: what one shard adds to the total
ShardTotal(r) == r.total

\* search.go:592-622: sort the combined hits, cut the page out
MergePage(combined, offset, limit) ==
    {LimitOffset(sorted, limit, offset) : sorted \in SortSlice(combined)}

\* Index.Search over the shards of ids, all open: the possible results
RECURSIVE SearchShards(_, _, _, _, _)
SearchShards(files, ids, offset, limit, acc) ==
    IF ids = {} THEN
        {[hits |-> page, total |-> acc.total] : page \in MergePage(acc.hits, offset, limit)}
    ELSE LET id == CHOOSE x \in ids : TRUE IN
         UNION {SearchShards(files, ids \ {id}, offset, limit,
                             [hits |-> acc.hits \o r.hits, total |-> acc.total + ShardTotal(r)]) :
                  r \in storeIndexSearch(files[id], 0, PerStoreLimit(offset, limit))}

IndexSearch(files, ids, offset, limit) ==
    SearchShards(files, ids, ClampOffset(offset), ClampLimit(limit),
                 [hits |-> <<>>, total |-> 0])

(***************************************************************************)
(* Repository.SearchMessages / searchMessagesWithIndex (index.go:334-415). *)
(***************************************************************************)
Queries == {<<>>, <<" ", "\t">>, <<" ", "a">>}

QueryIsBlank_NoTrim(q) == q = <<>>

\* index.go:351: strings.TrimSpace(req.Query) == ""
QueryIsBlank(q) == TrimSpace(q) = <<>>

\* Repository.indexStatusSnapshot: a copy of the status, taken under indexMu
indexStatusSnapshot(status) == status

\* makeEmpty: the empty response, with the status snapshot
makeEmpty(status) ==
    [kind |-> "ok", total |-> 0, hits |-> <<>>, index |-> indexStatusSnapshot(status)]

ErrorResponse(err) == [kind |-> "error", err |-> err]

\* the call of p returns resp to its caller
Answer(p, resp) ==
    [IdleProc EXCEPT !.pc = "ret", !.op = proc[p].op, !.q = proc[p].q,
                     !.gate = proc[p].gate, !.resp = resp]

\* a goroutine that is in no call: it has made none, or its last call has
\* returned resp
Idle(p) == proc[p].pc \in {"idle", "ret", "done"}

\* a caller starts an API call: no other goroutine's call is alone any more
EnterCall(p, rec) ==
    [r \in Procs |-> IF r = p THEN rec ELSE [proc[r] EXCEPT !.solo = FALSE]]

\* the callers are alike: a new call is made by the first goroutine that is
\* in none
SearcherLE(p, o) == p = o \/ p = "searcher1"

\* index.go:351-359: the query is checked; a blank one is answered at once,
\* any other goes through ensureIndex
Search(p, q) ==
    /\ ~closed
    /\ Idle(p)
    /\ \A o \in Searchers : Idle(o) => SearcherLE(p, o)
    /\ Events < MaxEvents
    /\ searches' = searches + 1
    /\ IF QueryIsBlank(q)
       THEN proc' = EnterCall(p, [IdleProc EXCEPT !.pc = "ret", !.op = "search", !.q = q,
                                               !.resp = makeEmpty(indexStatus)])
       ELSE /\ proc' = EnterEnsure(p, "search", q)
    /\ UNCHANGED <<coordVars, dsVars, rebuildsStarted, rebuildFailures,
                   dropped, searchVars, shardVars, closeVars, unitVars, syncVars, fileVars>>

\* index.go:359-365 and search.go:565-574: ensureIndex has returned; on an
\* error or not ready the search answers, else Index.Search copies the handles
SearchAfterEnsure(p) ==
    /\ proc[p].pc = "ens_ret"
    /\ proc[p].op = "search"
    /\ proc' = [proc EXCEPT ![p] =
          IF proc[p].err # "none"
          THEN Answer(p, ErrorResponse(proc[p].err))
          ELSE IF ~proc[p].ready
          THEN Answer(p, makeEmpty(indexStatus))
          ELSE [@ EXCEPT !.pc = IF stores = {} THEN "s_resp" ELSE "s_shard",
                         !.handles = {[id |-> s, open |-> TRUE] : s \in stores},
                         !.hits = <<>>, !.count = 0]]
    /\ UNCHANGED <<coordVars, dsVars, ghostVars, searchVars, shardVars, closeVars, unitVars, syncVars, fileVars>>

\* search.go:583-590: storeIndex.search on one of the copied handles; a
\* handle closed in the meantime answers errIndexNotInitialized
SearchShard(p) ==
    /\ proc[p].pc = "s_shard"
    /\ \E h \in proc[p].handles :
        IF ~h.open
        THEN proc' = [proc EXCEPT ![p] = Answer(p, ErrorResponse("fts index not initialized"))]
        ELSE \E r \in storeIndexSearch(shardFiles[h.id], 0,
                                       PerStoreLimit(0, ClampLimit(0))) :
               proc' = [proc EXCEPT
                   ![p].pc = IF proc[p].handles = {h} THEN "s_resp" ELSE "s_shard",
                   ![p].handles = proc[p].handles \ {h},
                   ![p].hits = proc[p].hits \o r.hits,
                   ![p].count = proc[p].count + ShardTotal(r)]
    /\ UNCHANGED <<coordVars, dsVars, ghostVars, searchVars, shardVars, closeVars, unitVars, syncVars, fileVars>>

\* search.go:592-622 and index.go:400-414: merge, page, attach the snapshot
SearchRespond(p) ==
    /\ proc[p].pc = "s_resp"
    /\ \E page \in MergePage(proc[p].hits, 0, ClampLimit(0)) :
         proc' = [proc EXCEPT ![p] =
                     Answer(p, [kind |-> "ok", total |-> proc[p].count, hits |-> page,
                                index |-> indexStatusSnapshot(indexStatus)])]
    /\ UNCHANGED <<coordVars, dsVars, ghostVars, searchVars, shardVars, closeVars, unitVars, syncVars, fileVars>>

(***************************************************************************)
(* Repository.IndexMessages (index_incremental.go:15-90).                  *)
(***************************************************************************)

IncrementalRefused_Never(status) == FALSE

\* index_incremental.go:28: refuse while rebuilding or not ready
IncrementalRefused(status) == status.InProgress \/ ~status.Ready

\* index_incremental.go:32-54: the messages grouped by their located store
GroupByStore(batch) ==
    [s \in StoreIDs |-> SelectSeq(batch, LAMBDA m : LocateMessageStore(m) = s)]

\* index_incremental.go:24-58: the status is read under indexMu, then either
\* the call returns or the batch is grouped by store; with no message left
\* in any group it returns nil
IndexMessages(p, msgs) ==
    /\ ~closed
    /\ Idle(p)
    /\ msgs # {} /\ msgs = pending
    /\ pending' = {}
    /\ IF IncrementalRefused(indexStatus)
       THEN /\ proc' = EnterCall(p, [IdleProc EXCEPT !.pc = "ret", !.op = "index",
                                                  !.resp = [kind |-> "ok"]])
            /\ dropped' = dropped \cup msgs
       ELSE /\ LET batches == GroupByStore(BySeq(msgs)) IN
                proc' = EnterCall(p,
                    IF batches = NoBuffers
                    THEN [IdleProc EXCEPT !.pc = "ret", !.op = "index",
                                          !.resp = [kind |-> "ok"]]
                    ELSE [IdleProc EXCEPT !.pc = "i_write", !.op = "index",
                                          !.buffers = batches,
                                          !.dirty = {s \in StoreIDs : batches[s] # <<>>}])
            /\ UNCHANGED dropped
    /\ UNCHANGED <<coordVars, dsMessages, dsFingerprint, dsStores, fpLosses, searches,
                   rebuildsStarted, rebuildFailures, searchVars, shardVars, closeVars, unitVars, syncVars, fileVars>>

BatchError_Logged(err) == [kind |-> "ok"]

\* index_incremental.go:65-67: the error of IndexStoreMessages is returned
BatchError(err) == ErrorResponse(err)

\* index_incremental.go:60-68: IndexStoreMessages for one store's batch; an
\* error ends the call
IndexMessagesWrite(p) ==
    /\ proc[p].pc = "i_write"
    /\ \E id \in proc[p].dirty :
        \/ LET c == IndexStoreMessages([stores |-> stores, files |-> shardFiles],
                                       id, proc[p].buffers[id])
           IN /\ stores' = c.stores
              /\ shardFiles' = c.files
              /\ proc' = [proc EXCEPT ![p].pc = IF proc[p].dirty = {id} THEN "i_fp" ELSE "i_write",
                                      ![p].dirty = proc[p].dirty \ {id}]
        \/ /\ proc' = [proc EXCEPT ![p] = Answer(p, BatchError("insert message"))]
           /\ UNCHANGED <<stores, shardFiles>>
    /\ UNCHANGED <<metaVersion, metaFingerprint, indexStatus, indexFingerprint,
                   dsVars, ghostVars, searchVars, shardVars, closeVars, unitVars, syncVars, fileVars>>

\* index_incremental.go:70-82: the datasource's fingerprint now; an empty one
\* ends the call without error, any other is persisted by
\* Index.UpdateFingerprint
IndexMessagesPersist(p) ==
    /\ proc[p].pc = "i_fp"
    /\ IF FingerprintIsBlank(dsFingerprint)
       THEN /\ proc' = [proc EXCEPT ![p] = Answer(p, [kind |-> "ok"])]
            /\ UNCHANGED metaFingerprint
       ELSE /\ metaFingerprint' = UpdateFingerprint(dsFingerprint)
            /\ proc' = [proc EXCEPT ![p].pc = "i_mem", ![p].fp = dsFingerprint]
    /\ UNCHANGED <<metaVersion, stores, shardFiles, indexStatus, indexFingerprint,
                   dsVars, ghostVars, searchVars, shardVars, closeVars, unitVars, syncVars, fileVars>>

\* index_incremental.go:84-89: the in-memory fingerprint, under indexMu
IndexMessagesCommit(p) ==
    /\ proc[p].pc = "i_mem"
    /\ indexFingerprint' = proc[p].fp
    /\ proc' = [proc EXCEPT ![p] = Answer(p, [kind |-> "ok"])]
    /\ UNCHANGED <<metaVersion, metaFingerprint, stores, shardFiles, indexStatus,
                   dsVars, ghostVars, searchVars, shardVars, closeVars, unitVars, syncVars, fileVars>>

IncrementalPcs == {"i_write", "i_fp", "i_mem"}

(***************************************************************************)
(* The datasource gets a new message: its fingerprint changes.             *)
(***************************************************************************)
DsAppend(m) ==
    /\ ~closed
    /\ Events < MaxEvents
    /\ m = NewMsg(Cardinality(dsMessages) + 1)
    /\ dsMessages' = dsMessages \cup {m}
    /\ dsFingerprint' = InitFp + Cardinality(dsMessages')
    /\ pending' = pending \cup {m}
    /\ proc' = [r \in Procs |-> [proc[r] EXCEPT !.solo = FALSE]]
    /\ UNCHANGED <<coordVars, dsStores, fpLosses, ghostVars, searchVars, shardVars, closeVars, unitVars, syncVars, fileVars>>

\* the datasource stops reporting a fingerprint: GetDatasetFingerprint
\* answers "" or white space until the next message arrives
DsFingerprintLost(b) ==
    /\ ~closed
    /\ Events < MaxEvents
    /\ ~FingerprintIsBlank(dsFingerprint)
    /\ dsFingerprint' = b
    /\ fpLosses' = fpLosses + 1
    /\ proc' = [r \in Procs |-> [proc[r] EXCEPT !.solo = FALSE]]
    /\ UNCHANGED <<coordVars, dsMessages, dsStores, pending, ghostVars, searchVars, shardVars, closeVars, unitVars, syncVars, fileVars>>

(***************************************************************************)
(* storeIndex.indexMessages (search.go:775-860): one batch, one            *)
(* transaction on the shard's database.                                    *)
(***************************************************************************)

\* a shard whose schema was just created: no row, no checkpoint
EmptyShard == [docs |-> {}, checkpoints |-> <<>>]

\* a nil *model.Message in the batch
NilMsg == Msg("nil", 0, 0, 0, FALSE)

\* the messages batches are made of: t1:1 in two versions (edited content,
\* time and rank), t1:2, t2:1, and nil
BatchMsgs == { Msg("t1", 1, 1, 1, TRUE), Msg("t1", 1, 2, 2, FALSE),
               Msg("t1", 2, 2, 1, TRUE), Msg("t2", 1, 1, 1, TRUE), NilMsg }

RECURSIVE SeqsUpTo(_, _)
SeqsUpTo(S, n) ==
    IF n = 0 THEN {<<>>}
    ELSE LET shorter == SeqsUpTo(S, n - 1)
         IN shorter \cup {Append(b, x) : b \in {c \in shorter : Len(c) = n - 1}, x \in S}

Batches == SeqsUpTo(BatchMsgs, MaxBatch)

\* search.go:780-795: the documents of the batch, nil messages skipped
NewDocuments(batch) == SelectSeq(batch, LAMBDA m : m # NilMsg)

\* search.go:792-794: the highest sequence number of each talker in the batch
MaxSeqOf(docs) ==
    [t \in {docs[i].talker : i \in DOMAIN docs} |->
        CHOOSE q \in {docs[i].seq : i \in {j \in DOMAIN docs : docs[j].talker = t}} :
            \A i \in DOMAIN docs : docs[i].talker = t => docs[i].seq <= q]

UpsertCheckpoint_Overwrites(cps, talker, seq) ==
    [t \in DOMAIN cps \cup {talker} |-> IF t = talker THEN seq ELSE cps[t]]

\* checkpoints ... ON CONFLICT(talker) DO UPDATE SET last_seq = the larger
UpsertCheckpoint(cps, talker, seq) ==
    IF talker \in DOMAIN cps
    THEN [cps EXCEPT ![talker] = IF seq > @ THEN seq ELSE @]
    ELSE [t \in DOMAIN cps \cup {talker} |-> IF t = talker THEN seq ELSE cps[t]]

Rollback_KeepsPrefix(committed, work) == work

\* tx.Rollback: the database keeps its committed state
Rollback(committed, work) == committed

\* no call on the shard yet
NoTx == [pc |-> "idle", batch |-> <<>>, docs |-> <<>>, maxSeq |-> <<>>,
         todo |-> {}, work |-> EmptyShard, before |-> EmptyShard,
         result |-> "none", stage |-> "none", resubmitted |-> FALSE]

\* indexMessages has returned result; stage is where it failed, if it did
Returned(result, stage) ==
    [NoTx EXCEPT !.pc = "done", !.batch = tx.batch, !.before = tx.before,
                 !.result = result, !.stage = stage,
                 !.resubmitted = tx.resubmitted]

\* search.go:775-815: the documents are built; an empty batch returns nil;
\* newDocument, a closed shard, Begin or Prepare can fail before any
\* statement ran; else the transaction is open
IndexBatch(batch) ==
    /\ tx.pc \in {"idle", "done"}
    /\ LET docs == NewDocuments(batch)
           call == [NoTx EXCEPT !.batch = batch, !.before = shard,
                       !.resubmitted = tx.pc = "done" /\ tx.result = "ok" /\ tx.batch = batch]
       IN IF docs = <<>>
          THEN tx' = [call EXCEPT !.pc = "done", !.result = "ok"]
          ELSE \/ tx' = [call EXCEPT !.pc = "done", !.result = "error", !.stage = "begin"]
               \/ tx' = [call EXCEPT !.pc = "insert", !.docs = docs,
                                     !.maxSeq = MaxSeqOf(docs), !.work = shard]
    /\ UNCHANGED <<coordVars, dsVars, proc, ghostVars, searchVars, shard, closeVars, unitVars, syncVars, fileVars>>

\* search.go:832-836: insertStmt.Exec for the next document; an error ends
\* the call, the deferred function rolls back
InsertDocument ==
    /\ tx.pc = "insert"
    /\ \/ /\ tx' = [tx EXCEPT !.work.docs = Upsert(@, Head(tx.docs)),
                              !.docs = Tail(@),
                              !.pc = IF Len(tx.docs) = 1 THEN "checkpoint" ELSE "insert",
                              !.todo = IF Len(tx.docs) = 1 THEN DOMAIN tx.maxSeq ELSE {}]
          /\ UNCHANGED shard
       \/ /\ shard' = Rollback(shard, tx.work)
          /\ tx' = Returned("error", "insert")
    /\ UNCHANGED <<coordVars, dsVars, proc, ghostVars, searchVars, closeVars, unitVars, syncVars, fileVars>>

\* search.go:838-852: checkpointStmt.Exec for one talker of maxSeq, in map
\* order; Prepare or Exec can fail
UpdateCheckpoint ==
    /\ tx.pc = "checkpoint"
    /\ \/ /\ \E talker \in tx.todo :
                tx' = [tx EXCEPT !.work.checkpoints =
                                      UpsertCheckpoint(@, talker, tx.maxSeq[talker]),
                                 !.todo = @ \ {talker},
                                 !.pc = IF tx.todo = {talker} THEN "commit" ELSE "checkpoint"]
          /\ UNCHANGED shard
       \/ /\ shard' = Rollback(shard, tx.work)
          /\ tx' = Returned("error", "checkpoint")
    /\ UNCHANGED <<coordVars, dsVars, proc, ghostVars, searchVars, closeVars, unitVars, syncVars, fileVars>>

\* search.go:854-859: tx.Commit
Commit ==
    /\ tx.pc = "commit"
    /\ \/ /\ shard' = tx.work
          /\ tx' = Returned("ok", "none")
       \/ /\ shard' = Rollback(shard, tx.work)
          /\ tx' = Returned("error", "commit")
    /\ UNCHANGED <<coordVars, dsVars, proc, ghostVars, searchVars, closeVars, unitVars, syncVars, fileVars>>

(***************************************************************************)
(* buildFTSQuery (search.go:1007-1046) and normalizeContent                *)
(* (search.go:1111-1180).  A string is the sequence of its runes.  An      *)
(* ASCII rune is written as itself, a rune outside ASCII by its code       *)
(* point: "U+4E16" is one rune, a CJK letter; "U+3002" is the ideographic  *)
(* full stop, neither letter nor digit.  The white space of the model is   *)
(* SpaceChars.                                                             *)
(***************************************************************************)
UpperOf == [a |-> "A", n |-> "N", d |-> "D", o |-> "O", r |-> "R", t |-> "T",
            x |-> "X"]
AsciiLower == DOMAIN UpperOf
AsciiUpper == {UpperOf[r] : r \in AsciiLower}
AsciiDigits == {"7"}
NonAsciiAlnum == {"U+4E16"}

\* unicode.ToUpper and unicode.ToLower on the runes above (U+4E16 has no case)
UpperRune(r) == IF r \in AsciiLower THEN UpperOf[r] ELSE r
LowerRune(r) ==
    IF r \in AsciiUpper THEN CHOOSE l \in AsciiLower : UpperOf[l] = r ELSE r

\* strings.ToUpper, strings.Contains, strings.ContainsAny, strings.HasPrefix
ToUpper(s) == [i \in 1..Len(s) |-> UpperRune(s[i])]
Contains(s, sub) ==
    \E i \in 1..(Len(s) - Len(sub) + 1) : SubSeq(s, i, i + Len(sub) - 1) = sub
ContainsAny(s, chars) == \E i \in 1..Len(s) : s[i] \in chars
HasPrefix(s, p) == Len(s) >= Len(p) /\ SubSeq(s, 1, Len(p)) = p

\* strings.Fields: the maximal runs of runes that are not white space
RECURSIVE Fields(_)
Fields(s) ==
    LET t == TrimLeft(s)
        ends == {i \in 1..Len(t) : t[i] \in SpaceChars}
        n == IF ends = {} THEN Len(t) + 1
             ELSE CHOOSE i \in ends : \A j \in ends : i <= j
    IN IF t = <<>> THEN <<>>
       ELSE <<SubSeq(t, 1, n - 1)>> \o Fields(SubSeq(t, n, Len(t)))

\* strings.ReplaceAll(t, "\"", "\"\"")
RECURSIVE DoubleQuotes(_)
DoubleQuotes(t) ==
    IF t = <<>> THEN <<>>
    ELSE (IF Head(t) = "\"" THEN <<"\"", "\"">> ELSE <<Head(t)>>)
         \o DoubleQuotes(Tail(t))

\* fmt.Sprintf("\"%s\"", t)
Quoted_Bare(t) == t

Quoted(t) == <<"\"">> \o t \o <<"\"">>

\* strings.Join
RECURSIVE Join(_, _)
Join(elems, sep) ==
    IF elems = <<>> THEN <<>>
    ELSE IF Len(elems) = 1 THEN elems[1]
    ELSE Head(elems) \o sep \o Join(Tail(elems), sep)

AdvancedChars == {"\"", "'", "*", "(", ")"}

\* search.go:1013-1017
IsAdvanced_CharsOnly(s) == ContainsAny(s, AdvancedChars)

IsAdvanced(s) ==
    \/ ContainsAny(s, AdvancedChars)
    \/ Contains(ToUpper(s), <<" ", "A", "N", "D", " ">>)
    \/ Contains(ToUpper(s), <<" ", "O", "R", " ">>)
    \/ HasPrefix(ToUpper(s), <<"N", "O", "T", " ">>)

\* search.go:1027-1035: the tokens, trimmed, the empty ones left out, quotes
\* doubled, each wrapped in quotes
EscapedTokens(tokens) ==
    LET kept == SelectSeq(tokens, LAMBDA tok : TrimSpace(tok) # <<>>)
    IN [i \in 1..Len(kept) |-> Quoted(DoubleQuotes(TrimSpace(kept[i])))]

buildFTSQuery(q) ==
    LET s == TrimSpace(q)
        tokens == Fields(s)
        escaped == EscapedTokens(tokens)
    IN IF s = <<>> THEN <<>>
       ELSE IF IsAdvanced(s) THEN s
       ELSE IF Len(tokens) = 0 THEN <<>>
       ELSE IF Len(escaped) = 0 THEN <<>>
       ELSE IF Len(escaped) = 1 THEN escaped[1]
       ELSE Join(escaped, <<" ", "A", "N", "D", " ">>)

\* search.go:1113-1124
classifyRune(r) ==
    CASE r \in SpaceChars -> "space"
      [] r \in AsciiLower \cup AsciiUpper \cup AsciiDigits -> "ascii"
      [] r \in NonAsciiAlnum -> "nonascii"
      [] OTHER -> "other"

\* the locals of normalizeContent: the builder, prevClass and lastWasSpace
NormalizeStart == [b |-> <<>>, prevClass |-> "none", lastWasSpace |-> FALSE]

\* search.go:1137-1142
writeSpace(st) ==
    IF ~st.lastWasSpace /\ Len(st.b) > 0
    THEN [st EXCEPT !.b = Append(@, " "), !.lastWasSpace = TRUE]
    ELSE st

\* search.go:1144-1173: one turn of the loop over the runes
NormalizeRune_NoBoundary(st, r) ==
    LET class == classifyRune(r)
    IN CASE class = "space" -> [writeSpace(st) EXCEPT !.prevClass = "space"]
         [] class = "ascii" ->
                [b |-> Append(st.b, LowerRune(r)), prevClass |-> class,
                 lastWasSpace |-> FALSE]
         [] class = "nonascii" ->
                LET w == IF st.prevClass = "ascii" THEN writeSpace(st) ELSE st
                IN [b |-> Append(w.b, r), prevClass |-> class,
                    lastWasSpace |-> FALSE]
         [] OTHER ->
                IF r \in {"\n", "\r", "\t"}
                THEN [writeSpace(st) EXCEPT !.prevClass = "space"]
                ELSE [b |-> Append(st.b, r), prevClass |-> class,
                      lastWasSpace |-> FALSE]

NormalizeRune(st, r) ==
    LET class == classifyRune(r)
    IN CASE class = "space" -> [writeSpace(st) EXCEPT !.prevClass = "space"]
         [] class = "ascii" ->
                LET w == IF st.prevClass = "nonascii" THEN writeSpace(st) ELSE st
                IN [b |-> Append(w.b, LowerRune(r)), prevClass |-> class,
                    lastWasSpace |-> FALSE]
         [] class = "nonascii" ->
                LET w == IF st.prevClass = "ascii" THEN writeSpace(st) ELSE st
                IN [b |-> Append(w.b, r), prevClass |-> class,
                    lastWasSpace |-> FALSE]
         [] OTHER ->
                IF r \in {"\n", "\r", "\t"}
                THEN [writeSpace(st) EXCEPT !.prevClass = "space"]
                ELSE [b |-> Append(st.b, r), prevClass |-> class,
                      lastWasSpace |-> FALSE]

RECURSIVE NormalizeRunes(_, _)
NormalizeRunes(st, s) ==
    IF s = <<>> THEN st ELSE NormalizeRunes(NormalizeRune(st, Head(s)), Tail(s))

normalizeContent(s) ==
    LET result == TrimSpace(NormalizeRunes(NormalizeStart, s).b)
    IN IF s = <<>> THEN <<>>
       ELSE IF result = <<>> THEN s
       ELSE result

(***************************************************************************)
(* Spec: New has opened the index (Open loads the metadata, no shard is    *)
(* open) and started the goroutine that calls ensureIndex.  The base       *)
(* directory is new, or an earlier run left its metadata and shard files.  *)
(***************************************************************************)
NoFiles == [s \in StoreIDs |-> {}]

InitDisk ==
    { [version |-> "",  fingerprint |-> NoFp,   files |-> NoFiles],
      [version |-> runtimeIndexVersion, fingerprint |-> InitFp,
       files |-> [NoFiles EXCEPT !["s1"] = {m0}]] }

\* loadMetadata when index-meta.json does not exist: the zero metadata
NoMetadata == [version |-> "", fingerprint |-> NoFp]

NoRequest == [offset |-> 0, limit |-> 0]
NoOutput  == [op |-> "none", value |-> <<>>]
NoResult  == [hits |-> <<>>, total |-> 0]

InitCommon ==
    /\ indexStatus = ZeroStatus
    /\ indexFingerprint = NoFp
    /\ dsFingerprint = InitFp
    /\ searches = 0
    /\ pending = {}
    /\ fpLosses = 0
    /\ rebuildsStarted = 0
    /\ rebuildFailures = 0
    /\ dropped = {}
    /\ sreq = NoRequest
    /\ sres = NoResult
    /\ sfirst = NoResult
    /\ shard = EmptyShard
    /\ tx = NoTx
    /\ closed = FALSE
    /\ input = <<>>
    /\ output = NoOutput
    /\ storeIndexes = <<>>
    /\ handles = <<>>
    /\ metaFile = NoMetadata

Init ==
    /\ \E d \in InitDisk :
        /\ metaVersion = d.version
        /\ metaFingerprint = d.fingerprint
        /\ shardFiles = d.files
    /\ stores = {}
    /\ dsMessages = {}
    /\ dsStores = StoreList
    /\ proc = [r \in Procs |->
                  IF r = Bg THEN [IdleProc EXCEPT !.pc = "ev", !.op = "ensure", !.solo = TRUE]
                  ELSE IdleProc]
    /\ InitCommon

Next ==
    \/ \E p \in Procs :
        \/ EnsureIndexVersion(p)
        \/ EnsureIndexInvalidate(p)
        \/ EnsureIndexFingerprint(p)
        \/ EnsureIndexGate(p)
        \/ RebuildReset(p)
        \/ RebuildSyncStores(p)
        \/ RebuildListTalkers(p)
        \/ RebuildIterate(p)
        \/ RebuildFlushStore(p)
        \/ RebuildProgress(p)
        \/ RebuildFinish(p)
        \/ EnsureIndexSucceed(p)
        \/ EnsureIndexFail(p)
        \/ EnsureIndexCancel(p)
    \/ \E p \in Searchers :
        \/ \E q \in Queries : Search(p, q)
        \/ SearchAfterEnsure(p)
        \/ SearchShard(p)
        \/ SearchRespond(p)
    \/ IndexMessages(Indexer, pending)
    \/ IndexMessagesWrite(Indexer)
    \/ IndexMessagesPersist(Indexer)
    \/ IndexMessagesCommit(Indexer)
    \/ \E m \in Msgs : DsAppend(m)
    \/ \E b \in {NoFp, BlankFp} : DsFingerprintLost(b)

Spec == Init /\ [][Next]_vars

(***************************************************************************)
(* SearchSpec: Index.Search as a function.  The shards hold any placement  *)
(* of the documents of Docs (a document is in one shard at most), all      *)
(* shards are open, and a search for any offset and limit is followed by   *)
(* the search for the next page.                                           *)
(***************************************************************************)
Docs == { Msg("t1", 1, 1, 1, TRUE),  Msg("t2", 1, 1, 1, TRUE),
          Msg("t1", 2, 2, 1, TRUE),  Msg("t2", 3, 1, 2, TRUE),
          Msg("t1", 4, 2, 2, TRUE),  Msg("t2", 5, 1, 1, FALSE) }

Offsets == 0..MaxOffset
Limits  == (1..MaxLim) \cup {MaxLimit}

InitSearch ==
    /\ \E place \in [Docs -> StoreIDs \cup {"none"}] :
          shardFiles = [s \in StoreIDs |-> {d \in Docs : place[d] = s}]
    /\ stores = StoreIDs
    /\ metaVersion = runtimeIndexVersion
    /\ metaFingerprint = InitFp
    /\ dsMessages = {}
    /\ dsStores = StoreList
    /\ proc = [r \in Procs |-> IdleProc]
    /\ InitCommon

\* Index.Search(req, ..., offset, limit) on the open shards
FederatedSearch(offset, limit) ==
    /\ sreq = NoRequest
    /\ \E res \in IndexSearch(shardFiles, stores, offset, limit) :
        /\ sreq' = [offset |-> offset, limit |-> limit]
        /\ sres' = res
    /\ UNCHANGED <<coordVars, dsVars, proc, ghostVars, sfirst, shardVars, closeVars, unitVars, syncVars, fileVars>>

\* the same search for the page that follows
NextPage ==
    /\ sreq # NoRequest
    /\ sfirst = NoResult
    /\ sres.hits # <<>>
    /\ \E res \in IndexSearch(shardFiles, stores, sreq.offset + sreq.limit, sreq.limit) :
        /\ sreq' = [offset |-> sreq.offset + sreq.limit, limit |-> sreq.limit]
        /\ sres' = res
        /\ sfirst' = sres
    /\ UNCHANGED <<coordVars, dsVars, proc, ghostVars, shardVars, closeVars, unitVars, syncVars, fileVars>>

NextSearch ==
    \/ \E offset \in Offsets, limit \in Limits : FederatedSearch(offset, limit)
    \/ NextPage

SearchSpec == InitSearch /\ [][NextSearch]_vars

(***************************************************************************)
(* CloseSpec: Spec, and Repository.Close (search.go:186-205) called once   *)
(* while calls may be in flight.  Close does not wait for them.  It sets   *)
(* r.index to nil without synchronisation: a call in flight goes on with   *)
(* the *Index it has, or reads nil and calls the method on a nil receiver. *)
(***************************************************************************)

\* search.go:187-204: indexCancel(), Index.Close closes and drops every
\* shard handle (search.go:347-363), r.index = nil, ds.Close()
Close ==
    /\ ~closed
    /\ closed' = TRUE
    /\ stores' = {}
    /\ proc' = CloseHandles(Bg, stores)
    /\ UNCHANGED <<metaVersion, metaFingerprint, shardFiles, indexStatus,
                   indexFingerprint, dsVars, ghostVars, searchVars, shardVars, unitVars, syncVars, fileVars>>

\* a call in flight reads r.index = nil.  ensureIndex not yet past index.go:55
\* returns (false, nil); EnsureVersion answers (false, nil); Reset, SyncStores
\* and UpdateFingerprint do nothing and answer nil; IndexStoreMessages
\* answers "index is nil" (search.go:626-628); Index.Search dereferences nil
NilIndexCall(p) ==
    /\ closed
    /\ \/ /\ proc[p].pc = "ev"
          /\ \/ ReturnEnsure(p, FALSE, "none", "closed")
             \/ proc' = [proc EXCEPT ![p].pc = "clear"]
       \/ /\ proc[p].pc = "rb_reset"
          /\ proc' = [proc EXCEPT ![p].pc = "rb_sync"]
       \/ /\ proc[p].pc = "rb_sync"
          /\ proc' = [proc EXCEPT ![p].pc = AfterSyncStores(dsStores)]
       \/ /\ proc[p].pc = "rb_flush"
          /\ \E id \in proc[p].dirty : proc[p].buffers[id] # <<>>
          /\ proc' = [proc EXCEPT ![p].pc = "e_fail", ![p].err = "index is nil"]
       \/ /\ proc[p].pc = "rb_fp"
          /\ proc' = [proc EXCEPT ![p].pc = "e_done"]
       \/ /\ proc[p].pc = "i_write"
          /\ proc' = [proc EXCEPT ![p] = Answer(p, ErrorResponse("index is nil"))]
       \/ /\ proc[p].pc = "i_fp"
          /\ ~FingerprintIsBlank(dsFingerprint)
          /\ proc' = [proc EXCEPT ![p].pc = "i_mem", ![p].fp = dsFingerprint]
       \/ /\ proc[p].pc = "ens_ret" /\ proc[p].op = "search"
          /\ proc[p].ready /\ proc[p].err = "none"
          /\ proc' = [proc EXCEPT ![p] = Answer(p, ErrorResponse("nil pointer dereference"))]
    /\ UNCHANGED <<coordVars, dsVars, ghostVars, searchVars, shardVars, closeVars, unitVars, syncVars, fileVars>>

NextClose ==
    \/ Next
    \/ Close
    \/ \E p \in Procs : NilIndexCall(p)

CloseSpec == Init /\ [][NextClose]_vars

(***************************************************************************)
(* EmptySpec: the ensureIndex callers of Spec over a datasource that does  *)
(* not change and that reports no store, or no talker, or one message of   *)
(* t1.                                                                     *)
(***************************************************************************)
InitEmpty ==
    /\ \E d \in InitDisk :
        /\ metaVersion = d.version
        /\ metaFingerprint = d.fingerprint
        /\ shardFiles = d.files
    /\ stores = {}
    /\ dsStores \in {<<>>, StoreList}
    /\ dsMessages \in {{}, {NewMsg(1)}}
    /\ proc = [r \in Procs |->
                  IF r = Bg THEN [IdleProc EXCEPT !.pc = "ev", !.op = "ensure", !.solo = TRUE]
                  ELSE IdleProc]
    /\ InitCommon

NextEmpty ==
    \/ \E p \in Procs :
        \/ EnsureIndexVersion(p)
        \/ EnsureIndexInvalidate(p)
        \/ EnsureIndexFingerprint(p)
        \/ EnsureIndexGate(p)
        \/ RebuildReset(p)
        \/ RebuildSyncStores(p)
        \/ RebuildListTalkers(p)
        \/ RebuildIterate(p)
        \/ RebuildFlushStore(p)
        \/ RebuildProgress(p)
        \/ RebuildFinish(p)
        \/ EnsureIndexSucceed(p)
        \/ EnsureIndexFail(p)
        \/ EnsureIndexCancel(p)
    \/ \E p \in Searchers :
        \/ \E q \in Queries : Search(p, q)
        \/ SearchAfterEnsure(p)
        \/ SearchShard(p)
        \/ SearchRespond(p)

EmptySpec == InitEmpty /\ [][NextEmpty]_vars

(***************************************************************************)
(* StreamSpec: the startup rebuild with IterateMessages handing over one   *)
(* row at a time (search.go:1811-1925), over a datasource that holds up to *)
(* MaxRows messages of t1, and messages of t3 that no store owns; Close    *)
(* may be called at any moment, and once the index is ready a batch of new *)
(* messages arrives and is handed to IndexMessages.                        *)
(***************************************************************************)
RowsOf(t, n) == {Msg(t, i, i, 1, TRUE) : i \in 1..n}

\* index.go:252-255, 279: ctx.Err() at the head of the talker loop, then
\* IterateMessages queries the rows of the talker
IterateOpen(p) ==
    /\ proc[p].pc = "rb_iter"
    /\ IF p = Bg /\ closed
       THEN FailRebuild(p, "canceled")
       ELSE /\ proc' = [proc EXCEPT ![p].pc = "rb_rows",
                            ![p].rows = {m \in dsMessages : m.talker = Head(proc[p].talkers)}]
            /\ UNCHANGED rebuildFailures
    /\ UNCHANGED <<coordVars, dsVars, searches, rebuildsStarted, dropped,
                   searchVars, shardVars, closeVars, unitVars, syncVars, fileVars>>

\* search.go:1886-1917: rows.Next, ctx.Err(), Scan, handler(row), in
\* ascending Sequence; an error of the handler or of the context ends
\* IterateMessages and rebuildIndex returns it at once (index.go:279-281).
\* After the last row the remaining loops of IterateMessages may still see
\* the cancellation.
IterateRow(p) ==
    /\ proc[p].pc = "rb_rows"
    /\ \/ /\ p = Bg /\ closed
          /\ FailRebuild(p, "canceled")
          /\ UNCHANGED <<stores, shardFiles>>
       \/ /\ proc[p].rows = {}
          /\ proc' = [proc EXCEPT ![p].pc = "rb_flush"]
          /\ UNCHANGED <<stores, shardFiles, rebuildFailures>>
       \/ /\ proc[p].rows # {}
          /\ ~(p = Bg /\ closed)
          /\ LET m  == CHOOSE x \in proc[p].rows : \A y \in proc[p].rows : x.seq <= y.seq
                 id == LocateMessageStore(m)
                 st == handler([buffers |-> proc[p].buffers, dirty |-> proc[p].dirty,
                                stores |-> stores, files |-> shardFiles], <<m>>)
             IN \/ /\ stores' = st.stores
                   /\ shardFiles' = st.files
                   /\ proc' = [proc EXCEPT ![p].rows = proc[p].rows \ {m},
                                           ![p].buffers = st.buffers,
                                           ![p].dirty = st.dirty]
                   /\ UNCHANGED rebuildFailures
                \/ /\ id # NoStore
                   /\ FlushDue(Append(proc[p].buffers[id], m))
                   /\ proc' = [proc EXCEPT ![p].pc = "e_fail", ![p].err = "insert message"]
                   /\ rebuildFailures' = rebuildFailures + 1
                   /\ UNCHANGED <<stores, shardFiles>>
    /\ UNCHANGED <<metaVersion, metaFingerprint, indexStatus, indexFingerprint,
                   dsVars, searches, rebuildsStarted, dropped,
                   searchVars, shardVars, closeVars, unitVars, syncVars, fileVars>>

\* the batches of new messages the datasource gets: a message of t3 alone,
\* or with a message of t1
ArrivalBatches ==
    { {Msg("t3", MaxRows + 1, MaxRows + 1, 1, TRUE)},
      {Msg("t3", MaxRows + 1, MaxRows + 1, 1, TRUE),
       Msg("t1", MaxRows + 1, MaxRows + 1, 1, TRUE)} }

DsArrive(batch) ==
    /\ ~closed
    /\ indexStatus.Ready
    /\ pending = {}
    /\ batch \cap dsMessages = {}
    /\ dsMessages' = dsMessages \cup batch
    /\ dsFingerprint' = InitFp + Cardinality(dsMessages')
    /\ pending' = batch
    /\ proc' = [r \in Procs |-> [proc[r] EXCEPT !.solo = FALSE]]
    /\ UNCHANGED <<coordVars, dsStores, fpLosses, ghostVars, searchVars, shardVars, closeVars, unitVars, syncVars, fileVars>>

InitStream ==
    /\ \E d \in InitDisk :
        /\ metaVersion = d.version
        /\ metaFingerprint = d.fingerprint
        /\ shardFiles = d.files
    /\ stores = {}
    /\ \E n1 \in {0, 1, MaxRows}, n2 \in 0..1, n3 \in 0..1 :
          dsMessages = RowsOf("t1", n1) \cup RowsOf("t2", n2) \cup RowsOf("t3", n3)
    /\ dsStores = StoreList
    /\ proc = [r \in Procs |->
                  IF r = Bg THEN [IdleProc EXCEPT !.pc = "ev", !.op = "ensure", !.solo = TRUE]
                  ELSE IdleProc]
    /\ InitCommon

NextStream ==
    \/ EnsureIndexVersion(Bg)
    \/ EnsureIndexInvalidate(Bg)
    \/ EnsureIndexFingerprint(Bg)
    \/ EnsureIndexGate(Bg)
    \/ RebuildReset(Bg)
    \/ RebuildSyncStores(Bg)
    \/ RebuildListTalkers(Bg)
    \/ IterateOpen(Bg)
    \/ IterateRow(Bg)
    \/ RebuildFlushStore(Bg)
    \/ RebuildProgress(Bg)
    \/ RebuildFinish(Bg)
    \/ EnsureIndexSucceed(Bg)
    \/ EnsureIndexFail(Bg)
    \/ EnsureIndexCancel(Bg)
    \/ \E batch \in ArrivalBatches : DsArrive(batch)
    \/ IndexMessages(Indexer, pending)
    \/ IndexMessagesWrite(Indexer)
    \/ IndexMessagesPersist(Indexer)
    \/ IndexMessagesCommit(Indexer)
    \/ Close
    \/ \E p \in Procs : NilIndexCall(p)

StreamSpec == InitStream /\ [][NextStream]_vars

(***************************************************************************)
(* ShardSpec: one open shard, created empty, and a caller that hands it    *)
(* batch after batch; every statement of a transaction can fail.           *)
(***************************************************************************)
InitShard ==
    /\ shardFiles = NoFiles
    /\ stores = {}
    /\ metaVersion = runtimeIndexVersion
    /\ metaFingerprint = NoFp
    /\ dsMessages = {}
    /\ dsStores = StoreList
    /\ proc = [r \in Procs |-> IdleProc]
    /\ InitCommon

NextShard ==
    \/ \E batch \in Batches : IndexBatch(batch)
    \/ InsertDocument
    \/ UpdateCheckpoint
    \/ Commit

ShardSpec == InitShard /\ [][NextShard]_vars

(***************************************************************************)
(* QuerySpec: buildFTSQuery applied to a query of up to MaxWords words,    *)
(* a space or a tab between two words, a space or nothing at either end.   *)
(* NormalizeSpec: normalizeContent applied to a text of up to MaxRunes     *)
(* runes.                                                                  *)
(***************************************************************************)
QueryWords ==
    { <<"x">>, <<"A", "N", "D">>, <<"o", "r">>, <<"N", "o", "t">>, <<"\"">>,
      <<"'">>, <<"*">>, <<"(">>, <<")">>, <<"x", "*">> }
Separators == { <<" ">>, <<"\t">> }
Margins == { <<>>, <<" ">> }

RECURSIVE Interleave(_, _)
Interleave(ws, seps) ==
    IF ws = <<>> THEN <<>>
    ELSE IF Len(ws) = 1 THEN ws[1]
    ELSE ws[1] \o seps[1] \o Interleave(Tail(ws), Tail(seps))

TextRunes == {" ", "\t", "a", "A", "7", "U+4E16", "U+3002"}

InitUnit ==
    /\ shardFiles = NoFiles
    /\ stores = {}
    /\ metaVersion = runtimeIndexVersion
    /\ metaFingerprint = NoFp
    /\ dsMessages = {}
    /\ dsStores = StoreList
    /\ proc = [r \in Procs |-> IdleProc]
    /\ indexStatus = ZeroStatus
    /\ indexFingerprint = NoFp
    /\ dsFingerprint = InitFp
    /\ searches = 0
    /\ pending = {}
    /\ fpLosses = 0
    /\ rebuildsStarted = 0
    /\ rebuildFailures = 0
    /\ dropped = {}
    /\ sreq = NoRequest
    /\ sres = NoResult
    /\ sfirst = NoResult
    /\ shard = EmptyShard
    /\ tx = NoTx
    /\ closed = FALSE
    /\ storeIndexes = <<>>
    /\ handles = <<>>
    /\ metaFile = NoMetadata

InitQuery ==
    /\ InitUnit
    /\ \E n \in 0..MaxWords :
          \E ws \in [1..n -> QueryWords] :
              \E seps \in [1..(IF n = 0 THEN 0 ELSE n - 1) -> Separators] :
                  \E lead \in Margins, trail \in Margins :
                      input = lead \o Interleave(ws, seps) \o trail
    /\ output = NoOutput

BuildFTSQuery ==
    /\ output = NoOutput
    /\ output' = [op |-> "query", value |-> buildFTSQuery(input)]
    /\ UNCHANGED <<coordVars, dsVars, proc, ghostVars, searchVars, shardVars,
                   closeVars, input, syncVars, fileVars>>

NextQuery == BuildFTSQuery

QuerySpec == InitQuery /\ [][NextQuery]_vars

InitNormalize ==
    /\ InitUnit
    /\ \E n \in 0..MaxRunes : input \in [1..n -> TextRunes]
    /\ output = NoOutput

NormalizeContent ==
    /\ output = NoOutput
    /\ output' = [op |-> "normalize", value |-> normalizeContent(input)]
    /\ UNCHANGED <<coordVars, dsVars, proc, ghostVars, searchVars, shardVars,
                   closeVars, input, syncVars, fileVars>>

NextNormalize == NormalizeContent

NormalizeSpec == InitNormalize /\ [][NextNormalize]_vars

(***************************************************************************)
(* SyncSpec: the shard handles of the coordinator.  Index.stores maps a    *)
(* trimmed store ID to a storeIndex; a storeIndex has the path it was      *)
(* opened at and a db that close() sets to nil.  Store IDs and paths are   *)
(* strings, written as sequences of runes.                                 *)
(***************************************************************************)
MaxStores  == 2      \* stores in one list handed to SyncStores
MaxHandles == 3      \* storeIndex values made in one run

basePath == <<"/", "b">>

RawStoreIDs == {<<"s">>, <<" ", "s">>, <<"t">>}
IndexPaths  == {<<>>, <<"/", "p">>}

NilStore   == [nil |-> TRUE, ID |-> <<>>, IndexPath |-> <<>>]
BlankStore == [nil |-> FALSE, ID |-> <<" ">>, IndexPath |-> <<>>]
StoreArgs  ==
    {NilStore, BlankStore} \cup [nil : {FALSE}, ID : RawStoreIDs, IndexPath : IndexPaths]

NoPath == <<>>

IsAbs(path) == Len(path) > 0 /\ path[1] = "/"

PathJoin(dir, name) == dir \o <<"/">> \o name

resolveStorePath(store) ==
    IF ~store.nil /\ TrimSpace(store.IndexPath) # <<>>
    THEN IF IsAbs(store.IndexPath) THEN store.IndexPath
         ELSE PathJoin(basePath, store.IndexPath)
    ELSE PathJoin(basePath, TrimSpace(store.ID) \o <<".fts.db">>)

ResolvedPaths == {resolveStorePath(st) : st \in StoreArgs \ {NilStore, BlankStore}}

\* storeIndex.close on handle h: db = nil, the path stays.
closeHandle(hs, h) == [hs EXCEPT ![h].open = FALSE]

Put(m, k, v) == [x \in DOMAIN m \cup {k} |-> IF x = k THEN v ELSE m[x]]

\* i is the pair Index.stores and the handles; bad is the path newStoreIndex
\* cannot open.  The result carries the two maps, the handle and the error.
ensureStoreIndexLocked(i, store, bad) ==
    LET id   == TrimSpace(store.ID)
        path == resolveStorePath(store)
        has  == id \in DOMAIN i.stores
        hs   == IF has THEN closeHandle(i.handles, i.stores[id]) ELSE i.handles
    IN  IF store.nil \/ id = <<>>
        THEN [stores |-> i.stores, handles |-> i.handles, si |-> 0, err |-> TRUE]
        ELSE IF has /\ i.handles[i.stores[id]].path = path
        THEN [stores |-> i.stores, handles |-> i.handles,
              si |-> i.stores[id], err |-> FALSE]
        ELSE IF path = bad
        THEN [stores |-> i.stores, handles |-> hs, si |-> 0, err |-> TRUE]
        ELSE [stores  |-> Put(i.stores, id, Len(hs) + 1),
              handles |-> Append(hs, [path |-> path, open |-> TRUE]),
              si |-> Len(hs) + 1, err |-> FALSE]

\* The first loop of SyncStores from the k-th store on; desired is the map
\* being built.  An error ends the loop with what was done so far.
RECURSIVE SyncLoop(_, _, _, _, _)
SyncLoop(i, desired, list, k, bad) ==
    IF k > Len(list)
    THEN [stores |-> i.stores, handles |-> i.handles, desired |-> desired,
          err |-> FALSE]
    ELSE IF list[k].nil \/ TrimSpace(list[k].ID) = <<>>
    THEN SyncLoop(i, desired, list, k + 1, bad)
    ELSE LET r == ensureStoreIndexLocked(i, list[k], bad)
         IN  IF r.err
             THEN [stores |-> r.stores, handles |-> r.handles,
                   desired |-> desired, err |-> TRUE]
             ELSE SyncLoop([stores |-> r.stores, handles |-> r.handles],
                           Put(desired, TrimSpace(list[k].ID), r.si),
                           list, k + 1, bad)

\* The second loop: close what is in Index.stores and not desired.
CloseUndesired(hs, old, desired) ==
    [h \in DOMAIN hs |->
        IF \E id \in DOMAIN old \ DOMAIN desired : old[id] = h
        THEN [hs[h] EXCEPT !.open = FALSE] ELSE hs[h]]

SyncResult(i, list, bad) ==
    LET r == SyncLoop(i, <<>>, list, 1, bad)
    IN  IF r.err
        THEN [stores |-> r.stores, handles |-> r.handles, err |-> TRUE]
        ELSE [stores |-> r.desired,
              handles |-> CloseUndesired(r.handles, r.stores, r.desired),
              err |-> FALSE]

IndexNow == [stores |-> storeIndexes, handles |-> handles]

SyncUnchanged ==
    UNCHANGED <<coordVars, dsVars, proc, ghostVars, searchVars, shardVars, closeVars,
                fileVars>>

SyncStores(list, bad) ==
    /\ Len(handles) + Len(list) <= MaxHandles
    /\ LET r == SyncResult(IndexNow, list, bad)
       IN  /\ storeIndexes' = r.stores
           /\ handles' = r.handles
           /\ input' = list
           /\ output' = [op |-> "SyncStores", value |-> r.err]
    /\ SyncUnchanged

\* ensureStoreIndex, as IndexStoreMessages calls it for one store.
EnsureStoreIndex(store, bad) ==
    /\ Len(handles) + 1 <= MaxHandles
    /\ LET r == ensureStoreIndexLocked(IndexNow, store, bad)
       IN  /\ storeIndexes' = r.stores
           /\ handles' = r.handles
           /\ input' = <<store>>
           /\ output' = [op |-> "ensureStoreIndex", value |-> r.err]
    /\ SyncUnchanged

\* Index.Reset and Index.Close: every handle of the map closed, the map emptied.
ResetStores ==
    /\ storeIndexes # <<>>
    /\ handles' = CloseUndesired(handles, storeIndexes, <<>>)
    /\ storeIndexes' = <<>>
    /\ input' = <<>>
    /\ output' = [op |-> "Reset", value |-> FALSE]
    /\ SyncUnchanged

StoreLists == UNION {[1..n -> StoreArgs] : n \in 0..MaxStores}

InitSync ==
    /\ InitUnit
    /\ input = <<>>
    /\ output = NoOutput

NextSync ==
    \/ \E list \in StoreLists, bad \in ResolvedPaths \cup {NoPath} : SyncStores(list, bad)
    \/ \E store \in StoreArgs, bad \in ResolvedPaths \cup {NoPath} : EnsureStoreIndex(store, bad)
    \/ ResetStores

SyncSpec == InitSync /\ [][NextSync]_vars

(***************************************************************************)
(* VersionSpec: the metadata of one open Index.  Open loads index-meta.json *)
(* into Index.meta; EnsureVersion and UpdateFingerprint change Index.meta  *)
(* and save it, and the save can fail; shards are opened, written and      *)
(* reset in between.                                                       *)
(***************************************************************************)
MaxCalls == 3        \* EnsureVersion calls in one run

\* index-meta.json as an earlier run left it: none, one of an older schema
\* version, one of the runtime version
MetadataFiles ==
    { NoMetadata,
      [version |-> "2", fingerprint |-> InitFp],
      [version |-> runtimeIndexVersion, fingerprint |-> InitFp] }

\* saveMetadataLocked: the file afterwards; a failed write or rename leaves
\* the file as it was
saveMetadataLocked(file, meta, saved) == IF saved THEN meta ELSE file

\* Index.EnsureVersion is called; saved tells whether the save succeeds.
\* input keeps the answers of the calls so far
CallEnsureVersion(saved) ==
    /\ Len(input) < MaxCalls
    /\ LET r == EnsureVersion(metaVersion) IN
        /\ metaVersion' = r.version
        /\ metaFile' = IF r.matched THEN metaFile
                       ELSE saveMetadataLocked(metaFile,
                                [version |-> r.version, fingerprint |-> metaFingerprint],
                                saved)
        /\ input' = Append(input, r.matched)
        /\ output' = [op |-> "EnsureVersion",
                      value |-> [matched |-> r.matched, err |-> ~r.matched /\ ~saved]]
    /\ UNCHANGED <<metaFingerprint, stores, shardFiles, indexStatus, indexFingerprint,
                   dsVars, proc, ghostVars, searchVars, shardVars, closeVars,
                   syncVars>>

\* Index.UpdateFingerprint(fp)
CallUpdateFingerprint(fp, saved) ==
    /\ metaFingerprint' = UpdateFingerprint(fp)
    /\ metaFile' = saveMetadataLocked(metaFile,
                       [version |-> metaVersion, fingerprint |-> UpdateFingerprint(fp)],
                       saved)
    /\ output' = [op |-> "UpdateFingerprint", value |-> [matched |-> FALSE, err |-> ~saved]]
    /\ UNCHANGED <<metaVersion, stores, shardFiles, indexStatus, indexFingerprint,
                   dsVars, proc, ghostVars, searchVars, shardVars, closeVars,
                   input, syncVars>>

\* Index.IndexStoreMessages(store, <<m>>)
CallIndexStoreMessages(id, m) ==
    /\ LET c == IndexStoreMessages([stores |-> stores, files |-> shardFiles], id, <<m>>)
       IN  /\ stores' = c.stores
           /\ shardFiles' = c.files
    /\ output' = [op |-> "IndexStoreMessages", value |-> [matched |-> FALSE, err |-> FALSE]]
    /\ UNCHANGED <<metaVersion, metaFingerprint, indexStatus, indexFingerprint,
                   dsVars, proc, ghostVars, searchVars, shardVars, closeVars,
                   input, syncVars, fileVars>>

\* Index.Reset: every open shard closed and its file removed
CallReset ==
    /\ stores # {}
    /\ shardFiles' = [s \in StoreIDs |-> IF s \in stores THEN {} ELSE shardFiles[s]]
    /\ stores' = {}
    /\ output' = [op |-> "Reset", value |-> [matched |-> FALSE, err |-> FALSE]]
    /\ UNCHANGED <<metaVersion, metaFingerprint, indexStatus, indexFingerprint,
                   dsVars, proc, ghostVars, searchVars, shardVars, closeVars,
                   input, syncVars, fileVars>>

InitVersion ==
    /\ metaFile \in MetadataFiles
    /\ metaVersion = metaFile.version
    /\ metaFingerprint = metaFile.fingerprint
    /\ \E d \in InitDisk : shardFiles = d.files
    /\ stores = {}
    /\ dsMessages = {}
    /\ dsStores = StoreList
    /\ proc = [r \in Procs |-> IdleProc]
    /\ indexStatus = ZeroStatus
    /\ indexFingerprint = NoFp
    /\ dsFingerprint = InitFp
    /\ searches = 0
    /\ pending = {}
    /\ fpLosses = 0
    /\ rebuildsStarted = 0
    /\ rebuildFailures = 0
    /\ dropped = {}
    /\ sreq = NoRequest
    /\ sres = NoResult
    /\ sfirst = NoResult
    /\ shard = EmptyShard
    /\ tx = NoTx
    /\ closed = FALSE
    /\ input = <<>>
    /\ output = NoOutput
    /\ storeIndexes = <<>>
    /\ handles = <<>>

NextVersion ==
    \/ \E saved \in BOOLEAN : CallEnsureVersion(saved)
    \/ \E fp \in {InitFp, InitFp + 1}, saved \in BOOLEAN : CallUpdateFingerprint(fp, saved)
    \/ \E id \in StoreIDs : CallIndexStoreMessages(id, NewMsg(1))
    \/ CallReset

VersionSpec == InitVersion /\ [][NextVersion]_vars

(***************************************************************************)
(* Properties of the coordinator, checked under Spec.                      *)
(***************************************************************************)

\* the goroutine is inside rebuildIndex
Rebuilding(p) == proc[p].pc \in RebuildPcs

\* the goroutine has set InProgress and not cleared it yet
HoldsRebuild(p) == proc[p].pc \in RebuildPcs \cup {"e_done", "e_fail", "e_cancel"}

\* a query made of white space only (or of nothing)
Blank(q) == \A i \in DOMAIN q : q[i] \in {" ", "\t", "\n", "\r"}

EmptyOk(resp) == resp.kind = "ok" /\ resp.total = 0 /\ resp.hits = <<>>

\* C1: at most one rebuildIndex executes at any time, under every
\* interleaving of the ensureIndex callers; a caller that finds InProgress
\* set when it holds the lock at the gate returns ready=false and no error,
\* and starts no rebuild
C1_SingleRebuild ==
    /\ [](Cardinality({p \in Procs : HoldsRebuild(p)}) <= 1)
    /\ [][\A p \in Procs :
            (proc[p].pc = "gate" /\ proc'[p].pc # "gate" /\ indexStatus.InProgress) =>
                /\ proc'[p].pc \in {"ens_ret", "done"}
                /\ ~proc'[p].ready
                /\ proc'[p].err = "none"
                /\ rebuildsStarted' = rebuildsStarted
                /\ indexStatus' = indexStatus]_vars

\* two callers have been turned away at the gate while a third goroutine
\* rebuilds
C1_Witness ==
    \E r \in Procs :
        /\ Rebuilding(r)
        /\ \A p \in Searchers :
              proc[p].pc = "ens_ret" /\ proc[p].gate = "busy" /\ ~proc[p].ready

\* the ensureIndex call of p has returned
EnsureReturned(p) ==
    \/ proc[p].op = "ensure" /\ proc[p].pc = "done"
    \/ proc[p].op = "search" /\ ~Blank(proc[p].q)
          /\ proc[p].pc \in {"ens_ret", "s_shard", "s_resp", "ret"}

\* C2: two concurrent ensureIndex calls (the startup call and one search),
\* the dataset fingerprint stable and different from the stored one, no
\* rebuild failing, any persisted schema version: rebuildIndex is executed
\* exactly once, and the call that did not rebuild returns without error
C2_ExactlyOneRebuild ==
    (dsFingerprint = InitFp /\ rebuildFailures = 0 /\ searches <= 1) =>
        /\ rebuildsStarted <= 1
        /\ (EnsureReturned(Bg) /\ \E p \in Searchers : EnsureReturned(p)) =>
              /\ rebuildsStarted = 1
              /\ \A p \in {Bg} \cup Searchers :
                    proc[p].gate # "start" =>
                        proc[p].err = "none" /\ proc[p].resp.kind # "error"

C4_SearchNeverRebuilds ==
    \A p \in Procs :
        proc[p].op = "search" =>
            /\ ~HoldsRebuild(p)
            /\ (proc[p].pc = "ret" /\ proc[p].gate \in {"busy", "start"}) =>
                  EmptyOk(proc[p].resp)

\* C5: a search that finds InProgress set at its gate answers with no hits,
\* total 0, no error, and a status snapshot that shows InProgress, whatever
\* the rebuild does in the meantime
C5_SnapshotShowsInProgress ==
    \A p \in Procs :
        (proc[p].op = "search" /\ proc[p].pc = "ret" /\ proc[p].gate = "busy") =>
            EmptyOk(proc[p].resp) /\ proc[p].resp.index.InProgress

\* C6: a search whose query is empty or white space only returns total 0, no
\* hits and no error at once: it is never inside ensureIndex or a shard
\* query, and its step leaves metadata, shards, handles, status, fingerprint
\* and the rebuild counts unchanged, whatever the coordinator's state
C6_BlankQuery ==
    /\ [](\A p \in Procs :
            (proc[p].op = "search" /\ Blank(proc[p].q)) =>
                /\ proc[p].pc = "ret"
                /\ EmptyOk(proc[p].resp)
                /\ proc[p].gate = "none")
    /\ [][(searches' = searches + 1
            /\ \A o \in Procs : proc'[o].pc = "ev" => proc[o].pc = "ev") =>
                /\ \E p \in Searchers :
                      /\ proc'[p].pc = "ret" /\ Blank(proc'[p].q)
                      /\ EmptyOk(proc'[p].resp)
                      /\ proc'[p].resp.index = indexStatus
                /\ UNCHANGED <<coordVars, rebuildsStarted, rebuildFailures>>]_vars

\* a white-space query has been answered while a rebuild was running
C6_Witness ==
    \E p \in Procs :
        /\ proc[p].op = "search" /\ proc[p].q = <<" ", "\t">> /\ proc[p].pc = "ret"
        /\ proc[p].resp.index.InProgress
        /\ \E r \in Procs : Rebuilding(r)

\* C9: no step of IndexMessages writes to a shard or changes the persisted or
\* the in-memory fingerprint while a rebuild is in progress
C9_NoIncrementalWriteDuringRebuild ==
    [][(proc[Indexer].pc \in IncrementalPcs /\ proc'[Indexer] # proc[Indexer]
          /\ <<shardFiles, stores, metaFingerprint, indexFingerprint>>' #
                <<shardFiles, stores, metaFingerprint, indexFingerprint>>)
        => ~indexStatus.InProgress]_vars

\* C10: never Ready with the stored fingerprint equal to the datasource's
\* while a message that IndexMessages was handed and did not index is in no
\* shard
C10_DroppedMessagesIndexed ==
    (indexStatus.Ready /\ ~indexStatus.InProgress /\ indexFingerprint = dsFingerprint) =>
        \A m \in dropped : \E s \in StoreIDs : m \in shardFiles[s]

\* C11: IndexMessages called while the status shows InProgress or not Ready
\* returns at once without error and changes nothing: no shard is written or
\* opened, the in-memory and the persisted fingerprint and the status stay
\* as they are
C11_RefusedIsNoOp ==
    [][(pending # {} /\ pending' = {}
          /\ (indexStatus.InProgress \/ ~indexStatus.Ready)) =>
            /\ proc'[Indexer].pc = "ret"
            /\ proc'[Indexer].resp.kind = "ok"
            /\ UNCHANGED coordVars]_vars

\* a batch has been refused while a rebuild was running, and nothing of it is
\* in a shard
C11_Witness ==
    /\ proc[Indexer].pc = "ret" /\ proc[Indexer].op = "index"
    /\ dropped # {}
    /\ indexStatus.InProgress
    /\ \A m \in dropped : \A s \in StoreIDs : m \notin shardFiles[s]

\* the fingerprint IndexMessages read from the datasource after its batches
\* were indexed: read in the step from "i_fp", kept in fp from then on
FingerprintRead == IF proc[Indexer].pc = "i_fp" THEN dsFingerprint ELSE proc[Indexer].fp

\* IndexMessages returns without error after all its batches were indexed
IncrementalReturnsOk ==
    /\ proc[Indexer].pc \in {"i_fp", "i_mem"}
    /\ proc'[Indexer].pc = "ret"
    /\ proc'[Indexer].resp.kind = "ok"

\* C12: when IndexMessages passed its gate on a Ready index, indexed its
\* batches, read a fingerprint from the datasource and returns without error,
\* the fingerprint in memory and the one in the metadata file equal the
\* fingerprint read, and if the datasource still reports that fingerprint the
\* gate of the next EnsureIndex finds the index fresh (ready=true, no rebuild).
C12_FingerprintAdvanced ==
    [][(IncrementalReturnsOk /\ ~FingerprintIsBlank(FingerprintRead)) =>
          /\ indexFingerprint' = FingerprintRead
          /\ metaFingerprint' = FingerprintRead
          /\ dsFingerprint' = FingerprintRead =>
                 GateFresh(indexFingerprint', dsFingerprint', indexStatus')]_vars

\* ensureIndex of p returns to its caller in this step
EnsureReturns(p) ==
    /\ proc[p].pc \notin {"done", "ens_ret"}
    /\ proc'[p].pc \in {"done", "ens_ret"}

\* p is between the gate that started its rebuild and the end of ensureIndex
InOwnRebuild(p) == proc[p].pc \in RebuildPcs \cup {"e_done", "e_fail", "e_cancel"}

\* a call at the gate that finds the index neither ready nor being rebuilt
\* enters rebuildIndex at its first step, the reset of every shard, with the
\* last error cleared
GateRestarts ==
    \A p \in Procs :
        (proc[p].pc = "gate" /\ proc'[p].pc # "gate"
            /\ ~indexStatus.Ready /\ ~indexStatus.InProgress) =>
            /\ proc'[p].pc = "rb_reset"
            /\ rebuildsStarted' = rebuildsStarted + 1
            /\ indexStatus'.InProgress /\ indexStatus'.LastError = ""

\* C13: when the rebuild run by ensureIndex succeeds, ensureIndex returns
\* ready=true without error, the status is Ready=true, InProgress=false,
\* Progress=1, and the in-memory fingerprint is the one this call read from
\* the datasource before the rebuild (kept unchanged during the rebuild).
C13_RebuildSuccess ==
    [][\A p \in Procs :
          /\ (InOwnRebuild(p) /\ InOwnRebuild(p)') => proc'[p].fp = proc[p].fp
          /\ (proc[p].pc = "rb_reset" /\ proc'[p].pc # "gate") =>
                 proc'[p].fp = proc[p].fp
          /\ (proc[p].pc = "e_done" /\ EnsureReturns(p)) =>
                 /\ proc'[p].ready /\ proc'[p].err = "none"
                 /\ indexStatus'.Ready /\ ~indexStatus'.InProgress
                 /\ indexStatus'.Progress = ProgressOne
                 /\ indexFingerprint' = proc[p].fp]_vars

\* a rebuild changed the shards of a non-empty dataset and succeeded
C13_Witness ==
    \E p \in Procs :
        /\ proc[p].pc \in {"done", "ens_ret"} /\ proc[p].gate = "start"
        /\ proc[p].ready
        /\ indexStatus.Ready /\ indexStatus.Progress = ProgressOne
        /\ dsMessages # {} /\ indexFingerprint = dsFingerprint

C15_RebuildCancelled ==
    [][/\ \A p \in Procs :
             (proc[p].pc = "e_cancel" /\ EnsureReturns(p)) =>
                 /\ ~proc'[p].ready /\ proc'[p].err = "canceled"
                 /\ ~indexStatus'.InProgress /\ ~indexStatus'.Ready
                 /\ indexStatus'.LastError = indexStatus.LastError
                 /\ indexStatus'.LastError = ""
                 /\ indexFingerprint' = indexFingerprint
       /\ \A p \in Procs :
             (proc[p].pc = "gate" /\ proc'[p].pc # "gate"
                 /\ ~indexStatus.Ready /\ ~indexStatus.InProgress
                 /\ proc[Bg].pc = "done" /\ proc[Bg].err = "canceled") =>
                     proc'[p].pc = "rb_reset" /\ rebuildsStarted' = rebuildsStarted + 1]_vars

\* the startup call was cancelled and a later call rebuilds
C15_Witness ==
    /\ proc[Bg].pc = "done" /\ proc[Bg].err = "canceled"
    /\ indexStatus.InProgress /\ indexStatus.LastError = ""
    /\ rebuildsStarted = 2

\* C16: when the datasource answers an empty or white-space fingerprint,
\* ensureIndex returns an error with ready=false, has started no rebuild and
\* has left InProgress, Ready and the stored fingerprint, in memory and in
\* the metadata file, as they were.
C16_EmptyFingerprint ==
    [][\A p \in Procs :
          (EnsureReturns(p) /\ proc'[p].gate = "nofp") =>
              /\ FingerprintIsBlank(dsFingerprint)
              /\ ~proc'[p].ready /\ proc'[p].err = "dataset fingerprint is empty"
              /\ UNCHANGED <<indexStatus, indexFingerprint, metaFingerprint,
                             rebuildsStarted>>
              /\ ~proc[p].changed]_vars

\* C17: when the metadata file left by an earlier run carries the runtime
\* version and the fingerprint the datasource reports, no rebuild is started
\* as long as that stays so: the first ensureIndex after Open runs none.
C17_NoRebuildWhenCurrent ==
    [][(/\ rebuildsStarted = 0
        /\ metaVersion = runtimeIndexVersion
        /\ metaFingerprint = dsFingerprint) => rebuildsStarted' = 0]_vars

\* the shard set is reset or only partly rebuilt by o
PartlyRebuilt(o) == proc[o].pc \in {"rb_sync", "rb_talkers", "rb_iter", "rb_flush"}

\* the search of p reads one of its shards in this step
ReadsShard(p) ==
    /\ proc[p].pc = "s_shard"
    /\ proc'[p].pc \in {"s_shard", "s_resp"}
    /\ Cardinality(proc'[p].handles) < Cardinality(proc[p].handles)

\* C18: a search that ensureIndex has let through (ready=true) never answers
\* with an error while reading its shards, and never reads a shard while
\* another caller's rebuild has reset the shard set and not yet filled it
\* again.
C18_SearchIsolatedFromRebuild ==
    [][\A p \in Searchers :
          /\ (proc[p].pc = "s_shard" /\ proc'[p].pc = "ret") =>
                 proc'[p].resp.kind = "ok"
          /\ ReadsShard(p) => \A o \in Procs \ {p} : ~PartlyRebuilt(o)]_vars

(***************************************************************************)
(* Properties of the federated search, checked under SearchSpec.           *)
(***************************************************************************)

\* the ranking of the results: score ascending, time descending, sequence
\* number descending
RankedBefore(a, b) ==
    \/ a.rank < b.rank
    \/ a.rank = b.rank /\ a.unix > b.unix
    \/ a.rank = b.rank /\ a.unix = b.unix /\ a.seq > b.seq

AllMatching == UNION {{d \in shardFiles[s] : d.match} : s \in stores}

RECURSIVE Perms(_)
Perms(S) ==
    IF S = {} THEN {<<>>}
    ELSE UNION {{<<x>> \o t : t \in Perms(S \ {x})} : x \in S}

\* the listings of all matching documents in ranking order
GlobalLists ==
    {L \in Perms(AllMatching) :
        \A i, j \in 1..Len(L) : i < j => ~RankedBefore(L[j], L[i])}

\* positions [offset, offset+limit) of L
PageOf(L, offset, limit) ==
    [k \in 1..(IF offset >= Len(L) THEN 0
               ELSE (IF offset + limit < Len(L) THEN offset + limit ELSE Len(L)) - offset)
        |-> L[offset + k]]

Range(f) == {f[x] : x \in DOMAIN f}

\* C7: the page is positions [offset, offset+limit) of the ranked list of all
\* matching documents of all shards, and the pages (0, k) and (k, k) have no
\* document in common and together are the first 2k of that list
C7_PagesOfGlobalOrder ==
    sreq # NoRequest =>
        /\ \E L \in GlobalLists : sres.hits = PageOf(L, sreq.offset, sreq.limit)
        /\ (sfirst # NoResult /\ sreq.offset = sreq.limit) =>
              /\ Range(sfirst.hits) \cap Range(sres.hits) = {}
              /\ \E L \in GlobalLists :
                    sfirst.hits \o sres.hits = PageOf(L, 0, 2 * sreq.limit)

\* the number of matching documents of shard s
MatchCount(s) == Cardinality({d \in shardFiles[s] : d.match})

\* the sum of MatchCount over the shards of S, each capped at cap
RECURSIVE SumCapped(_, _)
SumCapped(S, cap) ==
    IF S = {} THEN 0
    ELSE LET s == CHOOSE x \in S : TRUE
         IN (IF MatchCount(s) < cap THEN MatchCount(s) ELSE cap) + SumCapped(S \ {s}, cap)

\* the rows Index.Search has after the merge: each shard gives offset+limit
\* rows at most
MergedRows == SumCapped(stores, sreq.offset + sreq.limit)

\* C8: the total is the number of matching documents of all open shards,
\* whatever the offset and the limit; an offset at or beyond the merged rows
\* gives an empty page with that total
C8_TotalIsSum ==
    sreq # NoRequest =>
        /\ sres.total = SumCapped(stores, Cardinality(Docs) + 1)
        /\ sreq.offset >= MergedRows => sres.hits = <<>>

\* an offset at the end of the merged rows of two shards that both have
\* matching documents
C8_Witness ==
    /\ sreq # NoRequest
    /\ sreq.offset >= MergedRows
    /\ sres.hits = <<>>
    /\ sres.total >= 3
    /\ \A s \in stores : MatchCount(s) >= 1

(***************************************************************************)
(* Properties of the shard engine, checked under ShardSpec.                *)
(***************************************************************************)

\* the last message of the batch with the identity of d
LastSubmission(batch, d) ==
    LET docs == NewDocuments(batch)
        last == CHOOSE i \in DOMAIN docs :
                    /\ DocID(docs[i]) = DocID(d)
                    /\ \A j \in DOMAIN docs : DocID(docs[j]) = DocID(d) => j <= i
    IN docs[last]

\* the call commits in this step
Commits == tx.pc = "commit" /\ tx'.pc = "done" /\ tx'.result = "ok"

\* C19: after a batch is committed the shard holds, for every identity
\* (talker, seq) of the batch, exactly one row, with the attributes of the
\* batch's last message of that identity, whatever the shard held before and
\* however often the identity occurs in the batch; the rows of other
\* identities are untouched; no two rows of a shard ever share an identity;
\* and committing the batch that was committed just before changes nothing,
\* rows or checkpoints.
C19_UpsertByIdentity ==
    /\ [](\A d, e \in shard.docs : DocID(d) = DocID(e) => d = e)
    /\ [][Commits =>
            LET docs == NewDocuments(tx.batch)
                ids  == {DocID(docs[i]) : i \in DOMAIN docs}
            IN /\ \A i \in DOMAIN docs :
                     {d \in shard'.docs : DocID(d) = DocID(docs[i])}
                         = {LastSubmission(tx.batch, docs[i])}
               /\ {d \in shard'.docs : DocID(d) \notin ids}
                     = {d \in shard.docs : DocID(d) \notin ids}
               /\ shard'.docs = indexMessages(shard.docs, docs)
               /\ tx.resubmitted => shard' = shard]_vars

\* a batch that holds one identity twice with different content was
\* committed twice in a row: the shard holds the later version only
C19_Witness ==
    /\ tx.pc = "done" /\ tx.result = "ok" /\ tx.resubmitted
    /\ \E i, j \in DOMAIN tx.batch :
          /\ i < j
          /\ tx.batch[i] # NilMsg /\ tx.batch[j] # NilMsg
          /\ DocID(tx.batch[i]) = DocID(tx.batch[j])
          /\ tx.batch[i] # tx.batch[j]
          /\ tx.batch[j] \in shard.docs /\ tx.batch[i] \notin shard.docs

\* C20: indexMessages is atomic.  While its transaction is open the shard is
\* as before the call; a call in which a document insert, a checkpoint
\* update or the commit fails returns an error and leaves the rows and the
\* checkpoints exactly as before the call; a call that returns no error has
\* applied the whole batch.
C20_BatchAtomic ==
    /\ [](tx.pc \in {"insert", "checkpoint", "commit"} => shard = tx.before)
    /\ [](tx.pc = "done" /\ tx.result = "error" => shard = tx.before)
    /\ [][(tx.pc \in {"insert", "checkpoint", "commit"} /\ tx'.pc = "done") =>
            \/ tx'.result = "error" /\ shard' = shard
            \/ /\ tx'.result = "ok" /\ tx.pc = "commit"
               /\ shard'.docs = indexMessages(shard.docs, NewDocuments(tx.batch))
               /\ \A t \in DOMAIN tx.maxSeq :
                     /\ t \in DOMAIN shard'.checkpoints
                     /\ shard'.checkpoints[t] >= tx.maxSeq[t]]_vars

\* a call failed at a checkpoint after its documents had been inserted in
\* the transaction: none of them is in the shard
C20_Witness ==
    /\ tx.pc = "done" /\ tx.result = "error" /\ tx.stage = "checkpoint"
    /\ \E i \in DOMAIN tx.batch :
          tx.batch[i] # NilMsg /\ tx.batch[i] \notin shard.docs
    /\ shard.docs # {}

\* the talkers that have a row in the shard, and the highest sequence number
\* among the rows of a talker.  A committed row is never deleted, so these
\* are the talkers and the maxima over all batches committed so far
RowTalkers == {d.talker : d \in shard.docs}
HighestSeq(t) ==
    CHOOSE q \in {d.seq : d \in {e \in shard.docs : e.talker = t}} :
        \A d \in shard.docs : d.talker = t => d.seq <= q

\* C21: for every talker the checkpoint's last_seq never decreases and no
\* checkpoint disappears, and in every committed state of the shard the
\* checkpoints are those of the talkers committed so far, each equal to the
\* highest sequence number committed for its talker.
C21_CheckpointHighWater ==
    /\ [](/\ DOMAIN shard.checkpoints = RowTalkers
          /\ \A t \in RowTalkers : shard.checkpoints[t] = HighestSeq(t))
    /\ [][\A t \in DOMAIN shard.checkpoints :
             /\ t \in DOMAIN shard'.checkpoints
             /\ shard'.checkpoints[t] >= shard.checkpoints[t]]_vars

\* t1:2 was committed before, then a batch with t1:1 only: the checkpoint of
\* t1 stays above the batch's own maximum
C21_Witness ==
    /\ tx.pc = "done" /\ tx.result = "ok"
    /\ "t1" \in DOMAIN shard.checkpoints /\ shard.checkpoints["t1"] = 2
    /\ \E i \in DOMAIN tx.batch : tx.batch[i].talker = "t1"
    /\ \A i \in DOMAIN tx.batch : tx.batch[i].talker = "t1" => tx.batch[i].seq = 1
    /\ tx.before.checkpoints = shard.checkpoints

(***************************************************************************)
(* Properties of Close, checked under CloseSpec.                           *)
(***************************************************************************)

\* C22: once Close has returned no shard handle is open, and no call that
\* was in flight opens a handle or writes to a shard file again.
C22_ClosedStaysClosed ==
    /\ [](closed => stores = {})
    /\ [][closed => shardFiles' = shardFiles]_vars

(***************************************************************************)
(* Properties of the query compiler, checked under QuerySpec.              *)
(***************************************************************************)
Compiled == output.op = "query"

\* the words of a string: its maximal runs of runes that are not white space
WordStarts(q) ==
    {i \in 1..Len(q) : q[i] \notin SpaceChars /\ (i = 1 \/ q[i - 1] \in SpaceChars)}
WordEnd(q, i) ==
    CHOOSE j \in i..Len(q) :
        /\ \A k \in i..j : q[k] \notin SpaceChars
        /\ j = Len(q) \/ q[j + 1] \in SpaceChars
WordsOf(q) ==
    LET nth(k) == CHOOSE i \in WordStarts(q) :
                      Cardinality({j \in WordStarts(q) : j < i}) = k - 1
    IN [k \in 1..Cardinality(WordStarts(q)) |->
            SubSeq(q, nth(k), WordEnd(q, nth(k)))]

IsWord(w, keyword) == ToUpper(w) = keyword

\* the markers as the specification lists them
HasMarker(q) ==
    \/ \E i \in 1..Len(q) : q[i] \in {"\"", "'", "*", "(", ")"}
    \/ \E k \in 1..Len(WordsOf(q)) :
           IsWord(WordsOf(q)[k], <<"A", "N", "D">>) \/ IsWord(WordsOf(q)[k], <<"O", "R">>)
    \/ WordsOf(q) # <<>> /\ IsWord(WordsOf(q)[1], <<"N", "O", "T">>)

RECURSIVE AllOf(_)
AllOf(words) ==
    IF Len(words) = 1 THEN <<"\"">> \o words[1] \o <<"\"">>
    ELSE <<"\"">> \o words[1] \o <<"\"", " ", "A", "N", "D", " ">> \o AllOf(Tail(words))

\* C23: an empty or white-space-only query compiles to the empty string;
\* every other query without an advanced marker compiles to its words in
\* their order, each in double quotes, joined by " AND " (one word: just the
\* quoted word).
C23_QuotedTokens ==
    Compiled =>
        /\ WordsOf(input) = <<>> => output.value = <<>>
        /\ WordsOf(input) # <<>> /\ ~HasMarker(input) =>
               output.value = AllOf(WordsOf(input))

C23_Witness ==
    /\ Compiled
    /\ input = <<" ", "x", "\t", "x", " ">>
    /\ output.value = <<"\"", "x", "\"", " ", "A", "N", "D", " ", "\"", "x", "\"">>

\* C24 as stated: a query with a marker (a quote, '*', a parenthesis, the
\* word AND or OR in any case anywhere, a leading NOT) is returned equal to
\* the raw input, and no other non-empty query is returned unchanged.
C24_VerbatimAsStated ==
    Compiled /\ WordsOf(input) # <<>> =>
        /\ HasMarker(input) => output.value = input
        /\ ~HasMarker(input) => output.value # input

\* the markers as buildFTSQuery finds them in the trimmed query s
SpacedWord(s, keyword) ==
    \E i \in 1..Len(s) :
        /\ i + Len(keyword) + 1 <= Len(s)
        /\ s[i] = " "
        /\ s[i + Len(keyword) + 1] = " "
        /\ \A k \in 1..Len(keyword) : UpperRune(s[i + k]) = keyword[k]
LeadingWord(s, keyword) ==
    /\ Len(s) > Len(keyword)
    /\ s[Len(keyword) + 1] = " "
    /\ \A k \in 1..Len(keyword) : UpperRune(s[k]) = keyword[k]
FindsMarker(s) ==
    \/ \E i \in 1..Len(s) : s[i] \in {"\"", "'", "*", "(", ")"}
    \/ SpacedWord(s, <<"A", "N", "D">>)
    \/ SpacedWord(s, <<"O", "R">>)
    \/ LeadingWord(s, <<"N", "O", "T">>)

\* C24, amended: a query that, with its leading and trailing white space
\* removed, holds a quote, '*', a parenthesis, the word AND or OR (any case)
\* between two space characters, or starts with NOT (any case) and a space
\* character, is returned trimmed and otherwise unchanged; every other
\* non-empty query is returned neither raw nor trimmed.
C24_TrimmedPassThrough ==
    Compiled /\ WordsOf(input) # <<>> =>
        /\ FindsMarker(TrimSpace(input)) => output.value = TrimSpace(input)
        /\ ~FindsMarker(TrimSpace(input)) =>
               output.value # TrimSpace(input) /\ output.value # input

C24_Witness ==
    /\ Compiled
    /\ input = <<" ", "x", " ", "o", "r", " ", "x", "*">>
    /\ output.value = <<"x", " ", "o", "r", " ", "x", "*">>

(***************************************************************************)
(* Properties of the content normalizer, checked under NormalizeSpec.      *)
(***************************************************************************)
Normalized == output.op = "normalize"

AcrossScripts(r, q) ==
    {classifyRune(r), classifyRune(q)} = {"ascii", "nonascii"}

\* C25: in the output of normalizeContent no ASCII letter or digit stands
\* next to a letter or digit outside ASCII; where only white space lies
\* between two such runes, it is one space character.
C25_ScriptsSeparated ==
    Normalized =>
        \A i \in 1..Len(output.value) : \A j \in (i + 1)..Len(output.value) :
            ( /\ AcrossScripts(output.value[i], output.value[j])
              /\ \A k \in (i + 1)..(j - 1) : output.value[k] \in SpaceChars )
            => j = i + 2 /\ output.value[i + 1] = " "

C25_Witness ==
    /\ Normalized
    /\ input = <<"A", "U+4E16", "7">>
    /\ output.value = <<"a", " ", "U+4E16", " ", "7">>

(***************************************************************************)
(* Properties of the full rebuild, checked under Spec.                     *)
(***************************************************************************)
\* the messages of the datasource that belong to shard s
MessagesOf(s) == {m \in dsMessages : LocateMessageStore(m) = s}

\* C26: when rebuildIndex has returned without error, each shard holds
\* documents of messages the datasource streamed in that rebuild only, and
\* no document indexed before the rebuild, by this or an earlier run.
C26_RebuildStartsEmpty ==
    \A p \in Procs :
        proc[p].pc = "e_done" =>
            \A s \in StoreIDs : shardFiles[s] \subseteq MessagesOf(s)

(***************************************************************************)
(* Properties of the streaming rebuild, checked under StreamSpec.          *)
(***************************************************************************)
\* the store that owns the messages of a talker
OwnerOf(m) ==
    CASE m.talker = "t1" -> "s1"
      [] m.talker = "t2" -> "s2"
      [] OTHER -> "none"

BetweenTalkers ==
    \/ proc[Bg].pc \in {"rb_iter", "rb_fp", "e_done"}
    \/ proc[Bg].pc = "rb_flush" /\ proc[Bg].dirty = {}

\* C28: during a rebuild no buffer holds 512 messages or more once a handler
\* call has returned; every buffer is empty when a talker's iteration and
\* flush are complete; and when the rebuild returns success every streamed
\* message that has a store is in that store's shard.
C28_BuffersFlushed ==
    /\ proc[Bg].op = "ensure" =>
           \A s \in StoreIDs : Len(proc[Bg].buffers[s]) < 512
    /\ BetweenTalkers => \A s \in StoreIDs : proc[Bg].buffers[s] = <<>>
    /\ proc[Bg].pc = "e_done" =>
           \A m \in dsMessages : OwnerOf(m) \in StoreIDs => m \in shardFiles[OwnerOf(m)]

C28_Witness ==
    /\ proc[Bg].pc = "e_done"
    /\ ~closed
    /\ Cardinality({m \in shardFiles["s1"] : m.seq > 0}) > 512
    /\ shardFiles["s2"] # {}

\* C29: when the rebuild returns because its context was cancelled, the
\* messages buffered for the talker being streamed have been flushed to
\* their shards.
C29_FlushedBeforeCancel ==
    proc[Bg].pc = "e_cancel" =>
        \A s \in StoreIDs :
            \A i \in 1..Len(proc[Bg].buffers[s]) : proc[Bg].buffers[s][i] \in shardFiles[s]

WriteErrors == {"insert message", "index is nil"}

\* C30: a message without a registered store is skipped and fails nothing:
\* the rebuild fails for a write error only, on success every message that
\* has a store is indexed and the index becomes Ready; IndexMessages returns
\* an error for a write error only and has indexed the other messages of
\* its batch; no shard ever holds a message its store does not own.
C30_UnlocatedSkipped ==
    /\ proc[Bg].pc = "e_fail" => proc[Bg].err \in WriteErrors
    /\ proc[Bg].pc = "e_done" =>
           \A m \in dsMessages : OwnerOf(m) \in StoreIDs => m \in shardFiles[OwnerOf(m)]
    /\ proc[Bg].pc = "done" /\ proc[Bg].gate = "start" /\ proc[Bg].err = "none" =>
           proc[Bg].ready /\ indexStatus.Ready
    /\ proc[Indexer].pc = "ret" /\ proc[Indexer].resp.kind = "error" =>
           proc[Indexer].resp.err \in WriteErrors
    /\ proc[Indexer].pc \in {"i_fp", "i_mem"} =>
           \A m \in dsMessages : OwnerOf(m) \in StoreIDs => m \in shardFiles[OwnerOf(m)]
    /\ \A s \in StoreIDs : \A d \in shardFiles[s] : OwnerOf(d) = s

C30_Witness ==
    /\ ~closed
    /\ indexStatus.Ready
    /\ \E m \in dsMessages : m.talker = "t3" /\ m.seq = 1
    /\ \E m \in shardFiles["s2"] : m.talker = "t2"
    /\ proc[Indexer].pc = "ret" /\ proc[Indexer].resp.kind = "ok"
    /\ \E m \in shardFiles["s1"] : m.seq = MaxRows + 1
    /\ \E m \in dsMessages : m.talker = "t3" /\ m.seq = MaxRows + 1

(***************************************************************************)
(* Shard handles, checked under SyncSpec.                                  *)
(***************************************************************************)
Named(list) ==
    {k \in 1..Len(list) : ~list[k].nil /\ TrimSpace(list[k].ID) # <<>>}

TrimmedIDs(list) == {TrimSpace(list[k].ID) : k \in Named(list)}

PathsFor(list, id) ==
    {resolveStorePath(list[k]) : k \in {j \in Named(list) : TrimSpace(list[j].ID) = id}}

SyncReturnedNil == output'.op = "SyncStores" /\ output'.value = FALSE

\* C27: when SyncStores(S) returns nil, Index.stores is keyed exactly by the
\* non-empty trimmed IDs of the stores in S, each key has an open handle at
\* the resolved path of a store of S with that ID, every shard that was held
\* under an ID not in S is closed, and a shard whose path changed has its old
\* handle closed and a handle made by this call under the same ID.
C27_SyncedExactly ==
    [][SyncReturnedNil =>
          /\ DOMAIN storeIndexes' = TrimmedIDs(input')
          /\ \A id \in DOMAIN storeIndexes' :
                /\ handles'[storeIndexes'[id]].open
                /\ handles'[storeIndexes'[id]].path \in PathsFor(input', id)
          /\ \A id \in DOMAIN storeIndexes \ TrimmedIDs(input') :
                ~handles'[storeIndexes[id]].open
          /\ \A id \in DOMAIN storeIndexes \cap DOMAIN storeIndexes' :
                handles[storeIndexes[id]].path # handles'[storeIndexes'[id]].path
                    => /\ ~handles'[storeIndexes[id]].open
                       /\ storeIndexes'[id] > Len(handles)]_vars

(***************************************************************************)
(* Properties of the empty corpus, checked under EmptySpec.                *)
(***************************************************************************)

\* the datasource reports no store, or no talker
EmptyCorpus == dsStores = <<>> \/ ListTalkers(dsMessages) = <<>>

EnsureVersionReturns == Len(input') = Len(input) + 1

C33_ProgressMonotone ==
    /\ [](/\ ~ProgressLess(indexStatus.Progress, ProgressZero)
          /\ ~ProgressLess(ProgressOne, indexStatus.Progress))
    /\ [][/\ \A p \in Procs :
                (proc[p].pc = "rb_flush" /\ proc'[p].pc \in {"rb_iter", "rb_fp"}) =>
                    /\ proc'[p].done = proc[p].done + 1
                    /\ indexStatus'.Progress = Frac(proc'[p].done, proc[p].total)
          /\ (indexStatus.InProgress /\ indexStatus'.InProgress) =>
                ~ProgressLess(indexStatus'.Progress, indexStatus.Progress)]_vars


\* C34: the status follows Unbuilt -> InProgress -> Ready.  Ready and
\* InProgress are never both true, Ready implies Progress = 1 and an empty
\* LastError, and Ready turns from false to true only in the step in which
\* ensureIndex records the success of the rebuild its own gate started; no
\* step of IndexMessages and no step of a search outside ensureIndex changes
\* the flag
C34_StatusMachine ==
    /\ [](/\ ~(indexStatus.Ready /\ indexStatus.InProgress)
          /\ indexStatus.Ready =>
                /\ indexStatus.Progress = ProgressOne
                /\ indexStatus.LastError = "")
    /\ [][/\ (~indexStatus.Ready /\ indexStatus'.Ready) =>
                /\ indexStatus.InProgress
                /\ \E p \in Procs :
                      /\ proc[p].pc = "e_done"
                      /\ EnsureReturns(p)
                      /\ proc'[p].gate = "start"
                      /\ proc'[p].ready
          /\ proc'[Indexer] # proc[Indexer] => indexStatus' = indexStatus
          /\ \A p \in Searchers :
                (/\ proc[p].pc \in {"idle", "ens_ret", "s_shard", "s_resp", "ret"}
                 /\ proc'[p] # proc[p]) => indexStatus' = indexStatus]_vars

\* the startup call built the index and a later search found it ready
C34_Witness ==
    /\ indexStatus.Ready
    /\ indexStatus.Progress = ProgressOne
    /\ rebuildsStarted = 1
    /\ proc[Bg].pc = "done" /\ proc[Bg].gate = "start" /\ proc[Bg].ready
    /\ \E s \in Searchers : proc[s].pc = "ens_ret" /\ proc[s].gate = "fresh"


(***************************************************************************)
(* FilterSpec: the filters of one shard search.  searchMessagesWithIndex   *)
(* turns the Start and End of the request into Unix seconds                *)
(* (index.go:367-380) and storeIndex.search adds one WHERE clause per      *)
(* filter that is set (search.go:874-909).  A time of the request is the   *)
(* zero time.Time or has Unix seconds; the seconds of the zero time are    *)
(* not read.                                                               *)
(***************************************************************************)
MaxUnix == 2      \* FilterSpec: latest time of a document and of a bound

FilterTalkers == {"t1", "t2"}
FilterSenders == {"u1", "u2"}

ZeroTime == [isZero |-> TRUE, unix |-> 0]
TimeOf(u) == [isZero |-> FALSE, unix |-> u]

\* the times a request can carry: none, before, at and after the epoch
RequestTimes == {ZeroTime} \cup {TimeOf(u) : u \in -1..MaxUnix}

FilterDoc(t, s, u, m) == [talker |-> t, sender |-> s, unix |-> u, match |-> m]

\* a row the shard had before the one under test
d0 == FilterDoc("t1", "u1", 1, TRUE)

\* index.go:367-380: Unix seconds of the bounds, exchanged when both are
\* set and out of order
TimeBounds(start, end) ==
    LET startUnix == IF ~start.isZero THEN start.unix ELSE 0
        endUnix   == IF ~end.isZero THEN end.unix ELSE 0
    IN  IF startUnix > 0 /\ endUnix > 0 /\ endUnix < startUnix
        THEN [startUnix |-> endUnix, endUnix |-> startUnix]
        ELSE [startUnix |-> startUnix, endUnix |-> endUnix]

InList(v, list) == \E k \in 1..Len(list) : list[k] = v

\* search.go:874-899: the clauses joined by AND after the MATCH
whereClauses(d, talkers, senders, startUnix, endUnix) ==
    /\ Len(talkers) > 0 => InList(d.talker, talkers)
    /\ Len(senders) > 0 => InList(d.sender, senders)
    /\ startUnix > 0 => d.unix >= startUnix
    /\ endUnix > 0 => d.unix <= endUnix

\* search.go:901-909: the rows the count and the data query select
SelectedRows(docs, talkers, senders, startUnix, endUnix) ==
    {d \in docs : d.match /\ whereClauses(d, talkers, senders, startUnix, endUnix)}

InitFilter ==
    /\ InitUnit
    /\ \E t \in FilterTalkers, s \in FilterSenders, u \in 1..MaxUnix, m \in BOOLEAN :
       \E nt \in 0..2, ns \in 0..1 :
       \E talkers \in [1..nt -> FilterTalkers], senders \in [1..ns -> FilterSenders] :
       \E start \in RequestTimes, end \in RequestTimes :
          input = [docs |-> {d0, FilterDoc(t, s, u, m)}, talkers |-> talkers,
                   senders |-> senders, Start |-> start, End |-> end]
    /\ output = NoOutput

\* one search of the shard, with a page that holds every row
SearchFiltered ==
    /\ output = NoOutput
    /\ LET b == TimeBounds(input.Start, input.End)
       IN  output' = [op |-> "search",
                      value |-> [startUnix |-> b.startUnix, endUnix |-> b.endUnix,
                                 rows |-> SelectedRows(input.docs, input.talkers,
                                                       input.senders, b.startUnix,
                                                       b.endUnix)]]
    /\ UNCHANGED <<coordVars, dsVars, proc, ghostVars, searchVars, shardVars,
                   closeVars, input, syncVars, fileVars>>

NextFilter == SearchFiltered

FilterSpec == InitFilter /\ [][NextFilter]_vars

\* C35: the shard returns a matching document if and only if its talker is
\* in a non-empty talker filter, its sender is in a non-empty sender filter,
\* its time is >= start when start is not zero and <= end when end is not
\* zero
C35_FiltersExact ==
    output.op = "search" =>
        \A d \in input.docs :
            d \in output.value.rows <=>
                /\ d.match
                /\ input.talkers # <<>> => InList(d.talker, input.talkers)
                /\ input.senders # <<>> => InList(d.sender, input.senders)
                /\ output.value.startUnix # 0 => d.unix >= output.value.startUnix
                /\ output.value.endUnix # 0 => d.unix <= output.value.endUnix


\* C36: a successful rebuild persists and stores the fingerprint its call
\* read before the gate, whatever the datasource reports at completion; the
\* local is read from the datasource once and does not change during the
\* rebuild; and a call that reaches the gate with a fingerprint other than
\* the stored one is never let through as current: it starts a rebuild, or
\* finds one running
C36_StartFingerprintStored ==
    [][/\ \A p \in Procs :
            /\ (proc[p].pc \in {"ev", "fp"} /\ proc'[p].pc = "gate") =>
                    proc'[p].fp = dsFingerprint
            /\ (proc[p].pc \in RebuildPcs /\ proc'[p].pc \in RebuildPcs \cup {"e_done"}) =>
                    proc'[p].fp = proc[p].fp
            /\ (proc[p].pc = "rb_fp" /\ proc'[p].pc = "e_done") =>
                    metaFingerprint' = proc[p].fp
            /\ (proc[p].pc = "e_done" /\ EnsureReturns(p)) =>
                    /\ indexFingerprint' = proc[p].fp
                    /\ indexStatus'.Ready
       /\ \A q \in Procs :
            (/\ proc[q].pc = "gate"
             /\ proc'[q].pc # "gate"
             /\ indexFingerprint # proc[q].fp) =>
                IF indexStatus.InProgress
                THEN EnsureReturns(q) /\ proc'[q].gate = "busy" /\ ~proc'[q].ready
                ELSE /\ proc'[q].pc = "rb_reset"
                     /\ rebuildsStarted' = rebuildsStarted + 1
                     /\ ~indexStatus'.Ready]_vars

\* the only rebuild so far is about to be recorded as successful with the
\* fingerprint it started from, and the datasource has moved on since
C36_Witness ==
    /\ rebuildsStarted = 1
    /\ ~FingerprintIsBlank(dsFingerprint)
    /\ \E p \in Procs :
          /\ proc[p].pc = "e_done"
          /\ proc[p].fp # dsFingerprint
          /\ metaFingerprint = proc[p].fp


(***************************************************************************)
(* RouteSpec: the shard a message is written to.  The datasource of the   *)
(* version 4 data (datasource/v4/datasource.go) keeps one store per        *)
(* message database, in the order of their start times (StoreList), each   *)
(* with the hashes of the talkers that have a table in it, and a map from  *)
(* talker hash to the database that was read last among those that have    *)
(* the table (datasource.go:190-232, 242-288).  The order in which the     *)
(* databases are read is the order dbm.GetDBPath lists them in; nothing    *)
(* ties it to the start times.  input is that state of the datasource:     *)
(* dbPaths, the databases in the order read, and talkers, the hashes per   *)
(* store.                                                                  *)
(***************************************************************************)
TalkerHashes == {"h1", "h2"}

\* hex of md5.Sum of the talker name: one hash per name
md5Hex(t) == CASE t = "t1" -> "h1" [] t = "t2" -> "h2" [] OTHER -> "h3"

\* the store whose [StartTime, EndTime) holds the time u: each store ends
\* where the next begins (datasource.go:247-253)
StoreAt(u) == IF u < 2 THEN "s1" ELSE "s2"

\* the last entry of list that has the hash among its talkers, 0 if none
LastWith(list, talkers, h) ==
    LET ks == {k \in 1..Len(list) : h \in talkers[list[k]]}
    IN  IF ks = {} THEN 0 ELSE CHOOSE k \in ks : \A j \in ks : j <= k

\* datasource.go:144-175: the talker map first, then the time ranges
LocateMessageStoreV4(ds, m) ==
    LET k == LastWith(ds.dbPaths, ds.talkers, md5Hex(m.talker))
    IN  IF k # 0 THEN ds.dbPaths[k] ELSE StoreAt(m.unix)

\* index.go:159-206: talkerHashStore, filled store by store in the order of
\* ListMessageStores so that the last store with the hash stays, then
\* ds.LocateMessageStore resolved by path or ID
locateStore(ds, list, m) ==
    LET k == LastWith(list, ds.talkers, md5Hex(m.talker))
    IN  IF k # 0 THEN list[k] ELSE LocateMessageStoreV4(ds, m)

RouteMsgs == {Msg(Talkers[i], 1, u, 1, TRUE) : i \in 1..Len(Talkers), u \in 1..MaxUnix}

\* a federated search that matches every document: how often the message
\* is among the combined hits (search.go:581-590)
HitCount(files, m) == Cardinality({s \in StoreIDs : m \in files[s]})

InitRoute ==
    /\ InitUnit
    /\ \E paths \in {StoreList, <<StoreList[2], StoreList[1]>>} :
       \E talkers \in [StoreIDs -> SUBSET TalkerHashes] :
          input = [dbPaths |-> paths, talkers |-> talkers]
    /\ output = NoOutput

RouteUnchanged ==
    UNCHANGED <<metaVersion, metaFingerprint, stores, indexFingerprint,
                dsFingerprint, dsStores, fpLosses, proc, ghostVars, searchVars,
                shardVars, closeVars, input, syncVars, fileVars>>

\* a message is written to the table its talker has in the database of its
\* time, and is on its way to IndexMessages
RouteAppend ==
    /\ Cardinality(dsMessages) < MaxEvents
    /\ \E m \in RouteMsgs :
          /\ \A d \in dsMessages : DocID(d) # DocID(m)
          /\ md5Hex(m.talker) \in input.talkers[StoreAt(m.unix)]
          /\ dsMessages' = dsMessages \cup {m}
          /\ pending' = pending \cup {m}
    /\ UNCHANGED <<shardFiles, indexStatus, output>>
    /\ RouteUnchanged

\* ensureIndex with a full rebuild that succeeds: every shard is reset and
\* every message is written to the shard locateStore names
RouteRebuild ==
    /\ shardFiles' = [s \in StoreIDs |->
                        {m \in dsMessages : locateStore(input, StoreList, m) = s}]
    /\ indexStatus' = RebuildSucceeded(StartRebuild(indexStatus))
    /\ UNCHANGED <<dsMessages, pending, output>>
    /\ RouteUnchanged

\* IndexMessages with one message, on a ready index
RouteIncremental ==
    /\ ~IncrementalRefused(indexStatus)
    /\ \E m \in pending :
          /\ shardFiles' = [shardFiles EXCEPT
                               ![LocateMessageStoreV4(input, m)] = Upsert(@, m)]
          /\ pending' = pending \ {m}
    /\ UNCHANGED <<dsMessages, indexStatus, output>>
    /\ RouteUnchanged

\* Index.Search over every shard
RouteSearch ==
    /\ indexStatus.Ready
    /\ output' = [op |-> "search",
                  value |-> [m \in dsMessages |-> HitCount(shardFiles, m)]]
    /\ UNCHANGED <<shardFiles, dsMessages, pending, indexStatus>>
    /\ RouteUnchanged

NextRoute == RouteAppend \/ RouteRebuild \/ RouteIncremental \/ RouteSearch

RouteSpec == InitRoute /\ [][NextRoute]_vars

\* C37: the rebuild and the incremental update route every message to the
\* same shard, so a document is in at most one shard and a federated search
\* returns no message twice
C37_SameShard ==
    /\ \A m \in dsMessages :
          locateStore(input, StoreList, m) = LocateMessageStoreV4(input, m)
    /\ \A m \in dsMessages : HitCount(shardFiles, m) <= 1
    /\ output.op = "search" =>
          \A m \in DOMAIN output.value : output.value[m] <= 1


(***************************************************************************)
(* LiveSpec: the callers of EmptySpec with a goroutine that is inside      *)
(* rebuildIndex or at an exit of ensureIndex running on: the calls it      *)
(* makes into the datasource and the shards return, and the scheduler does *)
(* not starve it.  Callers that have not reached the gate stay free to     *)
(* stop.                                                                   *)
(***************************************************************************)
RebuildStep(p) ==
    \/ RebuildReset(p)
    \/ RebuildSyncStores(p)
    \/ RebuildListTalkers(p)
    \/ RebuildIterate(p)
    \/ RebuildFlushStore(p)
    \/ RebuildProgress(p)
    \/ RebuildFinish(p)
    \/ EnsureIndexSucceed(p)
    \/ EnsureIndexFail(p)
    \/ EnsureIndexCancel(p)

LiveSpec == InitEmpty /\ [][NextEmpty]_vars /\ \A p \in Procs : WF_vars(RebuildStep(p))

\* C38: while InProgress is set some call is between the gate that set it
\* and its exit; every exit of such a call, success, cancellation or error,
\* clears the flag; and with the running rebuild making its steps the flag
\* is cleared eventually
C38_RebuildEnds ==
    /\ [](indexStatus.InProgress => \E p \in Procs : HoldsRebuild(p))
    /\ [][\A p \in Procs :
            (HoldsRebuild(p) /\ EnsureReturns(p)) =>
                /\ proc[p].pc \in {"e_done", "e_fail", "e_cancel"}
                /\ ~indexStatus'.InProgress]_vars
    /\ indexStatus.InProgress ~> ~indexStatus.InProgress

\* a rebuild has ended in an error that is not a cancellation: the call that
\* ran it is back with the error, the flag is clear and no rebuild is running
C38_Witness ==
    /\ ~indexStatus.InProgress
    /\ indexStatus.LastError # ""
    /\ rebuildsStarted = 1
    /\ \A p \in Procs : ~HoldsRebuild(p)
    /\ \E p \in Procs :
          /\ proc[p].pc \in {"done", "ens_ret"}
          /\ proc[p].gate = "start"
          /\ ~proc[p].ready
          /\ proc[p].err = indexStatus.LastError


\* C39: IndexMessages goes on to the fingerprint only when the batch of every
\* store has been written; a call that leaves the writes for its return
\* returns the error of the failed write, and neither that step nor any
\* earlier write step of the call changes the persisted or the in-memory
\* fingerprint, the schema version or the status
C39_FailedBatch ==
    [][/\ (proc[Indexer].pc = "i_write" /\ proc'[Indexer].pc = "i_fp") =>
            /\ Cardinality(proc[Indexer].dirty) = 1
            /\ proc'[Indexer].dirty = {}
       /\ (proc[Indexer].pc = "i_write" /\ proc'[Indexer].pc = "ret") =>
            /\ proc'[Indexer].resp = ErrorResponse("insert message")
            /\ UNCHANGED <<stores, shardFiles>>
       /\ (/\ proc[Indexer].pc = "i_write"
           /\ \/ proc'[Indexer].pc # "i_write"
              \/ proc'[Indexer].dirty # proc[Indexer].dirty) =>
            UNCHANGED <<metaVersion, metaFingerprint, indexFingerprint, indexStatus>>
       /\ (proc[Indexer].pc # "i_mem" /\ proc'[Indexer].pc = "i_mem") =>
            proc[Indexer].pc = "i_fp"]_vars

\* the batch of the newest message failed on a ready index: the call is back
\* with the error, the message is in no shard, and both fingerprints are the
\* ones of the rebuild, behind the datasource
C39_Witness ==
    /\ proc[Indexer].pc = "ret"
    /\ proc[Indexer].resp = ErrorResponse("insert message")
    /\ indexStatus.Ready /\ ~indexStatus.InProgress
    /\ indexFingerprint = metaFingerprint
    /\ ~FingerprintIsBlank(dsFingerprint)
    /\ indexFingerprint # dsFingerprint
    /\ \E m \in dsMessages : \A s \in StoreIDs : m \notin shardFiles[s]

====
